---- MODULE Spec2Model ----
(***************************************************************************)
(* DocsRAG: the query workflow (pocketFlowRAG.ts), the vector index and    *)
(* its incremental update (customVectorStore.ts), the provider adapter     *)
(* (gemini.ts) and the chunker (documentProcessor.ts).                     *)
(*                                                                         *)
(* Conventions.                                                            *)
(*  - An optional JavaScript value is a sequence: <<>> is undefined and    *)
(*    <<v>> is the value v.                                                *)
(*  - Texts are strings; "" is the empty string.  Long provider texts and  *)
(*    the fixed message templates are named by a tag.                      *)
(*  - A vector is a tuple of integers; a similarity is kept exactly as the *)
(*    pair (dot product, squared product of the norms).                    *)
(*  - Confidence values are in tenths (8 is 0.8).                          *)
(***************************************************************************)
EXTENDS Integers, Sequences, FiniteSets, TLC

VARIABLES
    \* CustomVectorStore (in memory)
    documents,      \* Map<string, StoredDocument>, in insertion order
    embeddings,     \* Map<string, number[]>: function id -> optional vector
    \* the environment of CustomVectorStore.initialize()
    tree,           \* the data directory: path -> optional content
    disk,           \* documents.json, embeddings.json, file_hashes.json (each optional),
                    \* and whether embeddings.json was cut short by a failed write
    phase,          \* "stopped" | "updating" (initialize awaits the embeddings of what
                    \* it inserts) | "ready" (it resolved) | "crashed" (it rejected)
    passes,         \* number of initialize() calls so far
    edits,          \* edits of the tree since the last call
    faults,         \* failed reads, embedding calls and writes so far
    pending,        \* performIncrementalUpdate awaiting getTextEmbeddings: its locals
    \* history of the last initialize() call (not program state)
    passKind,       \* "none" | "build" | "update"
    toInsert,       \* performIncrementalUpdate: documentsToInsert
    toDelete,       \* performIncrementalUpdate: documentIdsToDelete
    loaded,         \* the index in memory when performIncrementalUpdate was entered
    written,        \* the files the call wrote
    scanFaults,     \* paths whose read or parse failed in scanCurrentDocuments
    passTree,       \* the tree the call scanned, if there was a call
    onlyChanged,    \* the one path whose content differs from the previous call's tree
    onlyRemoved,    \* the one path removed since the previous call's tree, the rest the same
    diskBefore,     \* the three files as the call found them
    writeFault,     \* which write of the call failed, if one did
    embedFaults,    \* the texts whose embedding call failed during the call
    snapshotTree,   \* the tree when documents.json and embeddings.json were last both written
    tableTree,      \* the tree when file_hashes.json was last written
    sinceTree,      \* the tree is the one both were written for (before the call)
    \* one PocketFlowRAGService.query() call
    pc,             \* the node the flow is at, or idle / flow_end / catch / done
    shared,         \* RAGSharedData of the run
    currentRetry,   \* Node.currentRetry of the node being executed
    searchIdx,      \* VectorSearchNode.exec: index of the next query in allQueries
    allResults,     \* VectorSearchNode.exec: the local array `results`
    runError,       \* the exception that left Flow.run, if any
    result,         \* what query() returned, if it returned
    outcome,        \* "pending" | "returned" | "thrown"
    \* history of the run (not program state)
    executed,       \* nodes whose _run was entered, in order
    generateCalls,  \* purposes for which GeminiService.generateText was invoked
    searchErrors,   \* indexes (in allQueries) of the searches the adapter caught failing
    queryEmbedding, \* the vector computed for the original query, if any
    intentFailed,   \* the provider call of classifyQueryIntent failed
    lastAction,     \* the action the last post returned
    attempts,       \* per node: the calls its exec made to the adapter or the provider
                    \* in the run, and how many of them failed
    \* a second query() call in flight: the variables above are those of the call
    \* whose continuation runs now
    other,          \* the run context of the call that awaits, if there are two calls
    focus,          \* which of the two calls runs now (1 or 2)
    \* one CustomVectorStore.vectorSearch call
    asked,          \* its arguments: the vector of the query text and topK
    found,          \* what it returned, if it was called
    \* one call of a function of DocumentProcessor, or of buildIndexFromScratch
    args,           \* its arguments, if it was called
    ret             \* what it returned, if it was called

indexVars  == <<documents, embeddings>>
ingestVars == <<tree, disk, phase, passes, edits, faults, pending, passKind, toInsert, toDelete, loaded, written,
               scanFaults, passTree, onlyChanged, onlyRemoved, diskBefore, writeFault,
               embedFaults, snapshotTree, tableTree, sinceTree>>
callVars   == <<other, focus>>
searchVars == <<asked, found>>
unitVars   == <<args, ret>>
storeVars  == <<indexVars, ingestVars, callVars, searchVars, unitVars>>
runVars    == <<pc, shared, currentRetry, searchIdx, allResults, runError, result, outcome>>
histVars   == <<executed, generateCalls, searchErrors, queryEmbedding, intentFailed,
               lastAction, attempts>>
vars       == <<storeVars, runVars, histVars>>

-----------------------------------------------------------------------------
(* Optional values *)

None == <<>>
Some(v) == <<v>>
IsSome(o) == o # <<>>
Get(o) == o[1]

\* JavaScript `s || ''` for an optional string
OrEmpty(o) == IF IsSome(o) /\ Get(o) # "" THEN Get(o) ELSE ""

\* JavaScript `a || []` for an optional array
OrNoElements(o) == IF IsSome(o) THEN Get(o) ELSE <<>>

\* text.trim().length === 0 for the texts of the model
IsBlank(text) == text \in {"", " "}

Range(s) == {s[i] : i \in 1..Len(s)}

\* Array.prototype.slice(0, n)
Slice(s, n) == SubSeq(s, 1, IF Len(s) < n THEN Len(s) ELSE n)

-----------------------------------------------------------------------------
(* Bounds of the model *)

MaxLines == 2        \* lines in a provider reply to the expansion prompt

-----------------------------------------------------------------------------
(* Results of calls that may throw *)

Throw(msg) == [threw |-> TRUE, message |-> msg]
Return(v) == [threw |-> FALSE, value |-> v]

\* A reply of the remote provider: it failed, or it answered with a payload
ProviderFailure == [ok |-> FALSE]
ProviderReply(payload) == [ok |-> TRUE, payload |-> payload]

-----------------------------------------------------------------------------
(* DocumentProcessor.  A text is a sequence of lines and a line is a sequence *)
(* of tokens: a token is one character, or the name of a long paragraph of   *)
(* prose whose length and word count ParagraphLength and ParagraphWords      *)
(* give.  The lines of the model carry no leading or trailing blanks, and a  *)
(* paragraph is alone on its line.                                           *)

maxChunkSize == 1000     \* characters
chunkOverlap == 200      \* characters

\* the long paragraphs of the model: their numbers of characters and of words
\* a paragraph of n words of five characters, one blank between two words
WordsParagraph(n) == "paragraph of " \o ToString(n) \o " words"

MaxWords == 450      \* words of the longest paragraph

WordsParagraphs == [n \in 1..MaxWords + 1 |-> WordsParagraph(n)]

WordsOf(token) == CHOOSE n \in DOMAIN WordsParagraphs : WordsParagraphs[n] = token

IsWordsParagraph(token) == token \in {WordsParagraphs[n] : n \in DOMAIN WordsParagraphs}

ParagraphLength(token) ==
    CASE token \in {"L1", "L2", "L3", "D1a", "D1b"} -> 600
      [] token = "P400" -> 400
      [] token = "P991" -> 991
      [] token = "P992" -> 992
      [] token = "P1000" -> 1000
      [] token = "P1001" -> 1001
      [] token = "W300" -> 1800
      [] Len(token) > 12 /\ IsWordsParagraph(token) -> 6 * WordsOf(token) - 1
      [] OTHER -> Len(token)

ParagraphWords(token) ==
    CASE token \in {"L1", "L2", "L3", "D1a", "D1b"} -> 100
      [] token \in {"P400", "P991", "P992", "P1000", "P1001"} -> 150
      [] token = "W300" -> 300
      [] Len(token) > 12 /\ IsWordsParagraph(token) -> WordsOf(token)
      [] OTHER -> 1

IsParagraph(token) == ParagraphLength(token) # Len(token)

\* String.prototype.length of a line and of a text (lines joined by '\n')
RECURSIVE LineLength(_)
LineLength(line) ==
    IF line = <<>> THEN 0 ELSE ParagraphLength(line[1]) + LineLength(Tail(line))

RECURSIVE TextLength(_)
TextLength(lines) ==
    IF lines = <<>> THEN 0
    ELSE LineLength(lines[1])
         + (IF Len(lines) > 1 THEN 1 + TextLength(Tail(lines)) ELSE 0)

\* the string of a line and of a text
RECURSIVE LineString(_)
LineString(line) == IF line = <<>> THEN "" ELSE line[1] \o LineString(Tail(line))

RECURSIVE Join(_)
Join(lines) ==
    IF lines = <<>> THEN ""
    ELSE LineString(lines[1]) \o (IF Len(lines) > 1 THEN "\n" \o Join(Tail(lines)) ELSE "")

\* content.split('\n') of a string the model names; '' has one, empty, line
Line(string) ==
    CASE string = "" -> <<>>
      [] string = "# Setup" -> <<"#", " ", "S", "e", "t", "u", "p">>
      [] string = "## Setup" -> <<"#", "#", " ", "S", "e", "t", "u", "p">>
      [] string = "## Usage" -> <<"#", "#", " ", "U", "s", "a", "g", "e">>
      [] string = "## Set up" -> <<"#", "#", " ", "S", "e", "t", " ", "u", "p">>
      [] string = "# set-up!" -> <<"#", " ", "s", "e", "t", "-", "u", "p", "!">>
      [] string = "#Setup" -> <<"#", "S", "e", "t", "u", "p">>
      [] string = "####### Setup" -> <<"#", "#", "#", "#", "#", "#", "#", " ", "S", "e", "t", "u", "p">>
      [] OTHER -> <<string>>

\* the number of '#' a line starts with
RECURSIVE LeadingHashes(_)
LeadingHashes(line) ==
    IF line # <<>> /\ line[1] = "#" THEN 1 + LeadingHashes(Tail(line)) ELSE 0

RECURSIVE LeadingBlanks(_)
LeadingBlanks(line) ==
    IF line # <<>> /\ line[1] = " " THEN 1 + LeadingBlanks(Tail(line)) ELSE 0

\* line.match(/^(#{1,6})\s+(.+)$/): the level and the heading text, if it matches
headerMatch(line) ==
    LET n == LeadingHashes(line)
        rest == SubSeq(line, n + 1, Len(line))
        k == LeadingBlanks(rest)
    IN  IF n \in 1..6 /\ k >= 1 /\ Len(rest) >= 2
        THEN Some([level |-> n,
                   heading |-> SubSeq(rest, (IF k = Len(rest) THEN k ELSE k + 1), Len(rest))])
        ELSE None

\* String.prototype.trim() of joined lines: the empty lines at both ends go
RECURSIVE TrimStart(_)
TrimStart(lines) ==
    IF lines # <<>> /\ lines[1] = <<>> THEN TrimStart(Tail(lines)) ELSE lines

RECURSIVE TrimEnd(_)
TrimEnd(lines) ==
    IF lines # <<>> /\ lines[Len(lines)] = <<>>
    THEN TrimEnd(SubSeq(lines, 1, Len(lines) - 1)) ELSE lines

\* the lines of the trimmed text; '' is the one empty line
TrimLines(lines) ==
    LET t == TrimEnd(TrimStart(lines)) IN IF t = <<>> THEN << <<>> >> ELSE t

\* extractSections: a section per header line, its content the trimmed lines up
\* to the next header line; `open` is currentSection, i the index of the line
RECURSIVE extractSections_from(_, _, _, _)
extractSections_from(lines, i, open, sections) ==
    IF i > Len(lines)
    THEN IF IsSome(open)
         THEN Append(sections,
                     [Get(open) EXCEPT
                        !.content = TrimLines(SubSeq(lines, Get(open).startLine + 1, Len(lines)))])
         ELSE sections
    ELSE LET m == headerMatch(lines[i]) IN
         IF IsSome(m)
         THEN extractSections_from(lines, i + 1,
                  Some([heading |-> Get(m).heading, level |-> Get(m).level,
                        content |-> << <<>> >>, startLine |-> i]),
                  IF IsSome(open)
                  THEN Append(sections,
                              [Get(open) EXCEPT
                                 !.content = TrimLines(SubSeq(lines, Get(open).startLine + 1,
                                                              i - 1))])
                  ELSE sections)
         ELSE extractSections_from(lines, i + 1, open, sections)

\* extractSections without the block that closes the last section
extractSections_NoLastSection(content) ==
    LET sections == extractSections_from(content, 1, None, <<>>) IN
    SubSeq(sections, 1, Len(sections) - 1)

extractSections(content) == extractSections_from(content, 1, None, <<>>)

\* String.prototype.toLowerCase, character by character
toLowerCase(c) ==
    CASE c = "S" -> "s"
      [] c = "U" -> "u"
      [] c = "L" -> "l"
      [] c = "D" -> "d"
      [] c = "P" -> "p"
      [] c = "W" -> "w"
      [] OTHER -> c

\* [a-z0-9]
LowerAlnum ==
    {"a", "b", "c", "d", "e", "f", "g", "h", "i", "j", "k", "l", "m", "n", "o", "p", "q",
     "r", "s", "t", "u", "v", "w", "x", "y", "z",
     "0", "1", "2", "3", "4", "5", "6", "7", "8", "9"}

\* replace(/[^a-z0-9]+/g, '-'): a run of other characters becomes one '-'
RECURSIVE DashRuns(_, _)
DashRuns(chars, inRun) ==
    IF chars = <<>> THEN <<>>
    ELSE IF chars[1] \in LowerAlnum THEN <<chars[1]>> \o DashRuns(Tail(chars), FALSE)
    ELSE (IF inRun THEN <<>> ELSE <<"-">>) \o DashRuns(Tail(chars), TRUE)

\* replace(/^-|-$/g, '')
StripDashes(chars) ==
    LET a == IF chars # <<>> /\ chars[1] = "-" THEN Tail(chars) ELSE chars
    IN  IF a # <<>> /\ a[Len(a)] = "-" THEN SubSeq(a, 1, Len(a) - 1) ELSE a

\* sanitizeId without the lowering of the case
sanitizeId_KeepsCase(heading) == LineString(StripDashes(DashRuns(heading, FALSE)))

\* sanitizeId
sanitizeId(heading) ==
    LineString(StripDashes(DashRuns([i \in 1..Len(heading) |-> toLowerCase(heading[i])], FALSE)))

\* getFileContentHash: sha256 of the bytes, a non-empty hex string
getFileContentHash(content) == "sha256:" \o content

\* content.split(/\s+/).length of a line without blanks at its ends
RECURSIVE LineWords(_, _)
LineWords(line, inWord) ==
    IF line = <<>> THEN 0
    ELSE IF line[1] = " " THEN LineWords(Tail(line), FALSE)
    ELSE (IF IsParagraph(line[1]) THEN ParagraphWords(line[1])
          ELSE IF inWord THEN 0 ELSE 1)
         + LineWords(Tail(line), ~IsParagraph(line[1]))

RECURSIVE TextWords(_)
TextWords(lines) ==
    IF lines = <<>> THEN 0
    ELSE LineWords(lines[1], FALSE) + TextWords(Tail(lines))

wordsPerChunk == maxChunkSize \div 6
overlapWords == chunkOverlap \div 6

\* slidingWindowChunk: the windows words.slice(i, i + wordsPerChunk), i advancing by
\* wordsPerChunk - overlapWords; a window holds the words from..to-1 of the text
RECURSIVE slidingWindowChunk_from(_, _)
slidingWindowChunk_from(words, i) ==
    IF i >= words THEN <<>>
    ELSE LET to == IF i + wordsPerChunk < words THEN i + wordsPerChunk ELSE words IN
         << [from |-> i, to |-> to] >>
         \o slidingWindowChunk_from(words, i + wordsPerChunk - overlapWords)

\* content.split(/\s+/).length (a text ending in a blank splits into one more,
\* empty, word)
SplitWords(content) ==
    TextWords(content) + (IF content[Len(content)] = <<>> THEN 1 ELSE 0)

\* chunkWords.join(' '): a chunk is named by the words it holds
WindowText(text, window) ==
    "words " \o ToString(window.from) \o ".." \o ToString(window.to) \o " of " \o text

slidingWindowChunk(content) ==
    LET windows == slidingWindowChunk_from(SplitWords(content), 0) IN
    [k \in 1..Len(windows) |-> WindowText(Join(content), windows[k])]

\* `# ${section.heading}\n\n${section.content}`
SectionContent(section) ==
    << <<"#", " ">> \o section.heading, <<>> >> \o section.content

\* createChunks: the chunks of one section
SectionChunks(section, baseMetadata) ==
    LET sectionContent == SectionContent(section)
        id == baseMetadata.file_path \o "#" \o sanitizeId(section.heading)
    IN  IF TextLength(sectionContent) <= maxChunkSize
        THEN << [id |-> id, text |-> Join(sectionContent),
                 metadata |-> [baseMetadata EXCEPT
                     !.section = Some(LineString(section.heading)),
                     !.chunk_type = IF section.level = 1 THEN "section" ELSE "subsection"]] >>
        ELSE LET subChunks == slidingWindowChunk(sectionContent) IN
             [index \in 1..Len(subChunks) |->
                [id |-> id \o "#" \o ToString(index - 1), text |-> subChunks[index],
                 metadata |-> [baseMetadata EXCEPT
                     !.section = Some(LineString(section.heading)),
                     !.chunk_index = Some(index - 1),
                     !.chunk_type = "subsection"]]]

RECURSIVE AllSectionChunks(_, _)
AllSectionChunks(sections, baseMetadata) ==
    IF sections = <<>> THEN <<>>
    ELSE SectionChunks(sections[1], baseMetadata)
         \o AllSectionChunks(Tail(sections), baseMetadata)

\* createChunks whose size test is strict
createChunks_StrictThreshold(content, sections, baseMetadata) ==
    IF TextLength(content) < maxChunkSize
    THEN << [id |-> baseMetadata.file_path, text |-> Join(content),
             metadata |-> [baseMetadata EXCEPT !.chunk_type = "full_document"]] >>
    ELSE AllSectionChunks(sections, baseMetadata)

\* createChunks
createChunks(content, sections, baseMetadata) ==
    IF TextLength(content) <= maxChunkSize
    THEN << [id |-> baseMetadata.file_path, text |-> Join(content),
             metadata |-> [baseMetadata EXCEPT !.chunk_type = "full_document"]] >>
    ELSE AllSectionChunks(sections, baseMetadata)

\* the metadata of processMarkdownFile that the index and the claims read
BaseMetadata(filePath, fileHash) ==
    [file_path |-> filePath, file_hash |-> fileHash, chunk_type |-> "full_document",
     section |-> None, chunk_index |-> None]

\* The files of the data directory are named by their content; Document gives the
\* lines of the processed content (after cleanMarkdown, removeFrontmatter and
\* processMDXComponents)
SmallContents == {"", "S1", "S2"}          \* content.length <= maxChunkSize
LargeContents == {"L1", "L2", "L3", "D1"}  \* longer, with headings
Contents == SmallContents \cup LargeContents

Document(content) ==
    CASE content = "D1" -> <<Line("# Setup"), Line("D1a"), Line("## Setup"), Line("D1b")>>
      [] content \in LargeContents ->
            <<Line("# Setup"), Line(content), Line("## Usage"), Line(content)>>
      [] OTHER -> <<Line(content)>>

\* processMarkdownFile for a file that can be read: the chunks depend on the path
\* and the content only, and are computed once for each file of the model
FilePaths == {"a.md", "b.md", "c.md", "d.md"}

ProcessedFiles ==
    [filePath \in FilePaths, content \in Contents |->
        LET processedContent == Document(content) IN
        createChunks(processedContent, extractSections(processedContent),
                     BaseMetadata(filePath, getFileContentHash(content)))]

processMarkdownFile(filePath, content) == ProcessedFiles[filePath, content]

-----------------------------------------------------------------------------
(* The embedding provider: the vector of a text.  The provider is a fixed   *)
(* function of the text; whether a call fails is chosen by the caller.     *)

\* const batchSize = 10 of buildIndexFromScratch
batchSize == 10

\* the text of section i of a document with many short sections
SectionText(i) == "section " \o ToString(i)

ProviderVector(text) ==
    CASE text = "S1" -> <<1, 0>>
      [] text = "S2" -> <<0, 1>>
      [] text = "# Setup\n\nL1" -> <<1, 0>>
      [] text = "# Usage\n\nL1" -> <<0, 1>>
      [] text = "# Setup\n\nL2" -> <<1, 1>>
      [] text = "# Usage\n\nL2" -> <<1, -1>>
      [] text = "# Setup\n\nL3" -> <<2, 1>>
      [] text = "# Usage\n\nL3" -> <<-1, 0>>
      [] text \in {SectionText(i) : i \in 1..3 * batchSize} ->
            <<CHOOSE i \in 1..3 * batchSize : SectionText(i) = text, 1>>
      [] OTHER -> <<1, 2>>

\* Vectors the provider may return for a query text
QueryVectors == {<<1, 0>>, <<-1, -1>>}

\* GeminiService.getTextEmbedding
getTextEmbedding(text, reply) ==
    IF IsBlank(text) THEN Throw("Text cannot be empty for embedding")
    ELSE IF ~reply.ok THEN Throw("Failed to get embedding from Gemini API")
    ELSE Return(reply.payload)

-----------------------------------------------------------------------------
(* CustomVectorStore: cosine similarity and the exhaustive search *)

RECURSIVE Dot(_, _)
Dot(a, b) == IF a = <<>> THEN 0 ELSE a[1] * b[1] + Dot(Tail(a), Tail(b))

\* cosineSimilarity: dot / (sqrt(normA) * sqrt(normB)), kept as (num, den2) with
\* den2 = normA * normB; den2 = 0 is the division 0/0, NaN
cosineSimilarity(a, b) ==
    IF Len(a) # Len(b) THEN Throw("Vector dimensions must match")
    ELSE Return([num |-> Dot(a, b), den2 |-> Dot(a, a) * Dot(b, b)])

IsNaN(s) == s.den2 = 0

\* s < t for two similarities that are numbers
SimLess(s, t) ==
    CASE s.num < 0 /\ t.num >= 0 -> TRUE
      [] s.num >= 0 /\ t.num < 0 -> FALSE
      [] s.num >= 0 /\ t.num >= 0 -> s.num * s.num * t.den2 < t.num * t.num * s.den2
      [] OTHER -> s.num * s.num * t.den2 > t.num * t.num * s.den2

\* the comparator (a, b) => b.similarity - a.similarity; a NaN difference counts as 0
CompareResults(a, b) ==
    IF IsNaN(a.similarity) \/ IsNaN(b.similarity) THEN 0
    ELSE IF SimLess(a.similarity, b.similarity) THEN 1
    ELSE IF SimLess(b.similarity, a.similarity) THEN -1
    ELSE 0

\* Array.prototype.sort is stable: x goes before the first element that must follow it
RECURSIVE InsertSorted(_, _)
InsertSorted(sorted, x) ==
    IF sorted = <<>> THEN <<x>>
    ELSE IF CompareResults(Head(sorted), x) > 0 THEN <<x>> \o sorted
    ELSE <<Head(sorted)>> \o InsertSorted(Tail(sorted), x)

RECURSIVE SortResults(_)
SortResults(s) ==
    IF s = <<>> THEN <<>>
    ELSE InsertSorted(SortResults(SubSeq(s, 1, Len(s) - 1)), s[Len(s)])

\* `if (docEmbedding)`: the map has a vector for the id
HasEmbedding(emb, id) == id \in DOMAIN emb /\ IsSome(emb[id])

\* CustomVectorStore.vectorSearch over the index (docs, emb)
vectorSearch(docs, emb, queryText, topK, reply) ==
    LET qe == getTextEmbedding(queryText, reply) IN
    IF qe.threw THEN qe
    ELSE LET withVec == SelectSeq(docs, LAMBDA d : HasEmbedding(emb, d.id))
             sims == [i \in 1..Len(withVec) |->
                         cosineSimilarity(qe.value, Get(emb[withVec[i].id]))]
         IN IF \E i \in 1..Len(withVec) : sims[i].threw
            THEN Throw("Vector dimensions must match")
            ELSE LET results == [i \in 1..Len(withVec) |->
                                   [document |-> withVec[i], similarity |-> sims[i].value]]
                 IN Return(Slice(SortResults(results), topK))

-----------------------------------------------------------------------------
(* GeminiService: text generation and the two prompts built on it.  A text  *)
(* of the provider is the sequence of its lines, <<"">> being the empty     *)
(* text.                                                                    *)

\* generateText: throws when the call fails or no text comes back
generateText(reply) ==
    IF ~reply.ok \/ reply.payload = <<"">>
    THEN Throw("No text generated from Gemini API")
    ELSE Return(reply.payload)

DefaultIntent == [type |-> "general", confidence |-> 5]

\* intentMap[intent] || 'general'
intentMap(intent) ==
    CASE intent \in {"how-to", "howto"} -> "how-to"
      [] intent \in {"concept", "reference", "troubleshooting", "example", "general"} -> intent
      [] OTHER -> "general"

\* classifyQueryIntent whose catch block returns the confidence of a classified query
classifyQueryIntent_FailureLooksClassified(query, reply) ==
    LET response == generateText(reply) IN
    Return([type |-> IF ~response.threw /\ Len(response.value) = 1
                     THEN intentMap(response.value[1]) ELSE "general",
            confidence |-> 8])

\* classifyQueryIntent: the provider's failure is caught here
classifyQueryIntent(query, reply) ==
    LET response == generateText(reply) IN
    IF response.threw THEN Return(DefaultIntent)
    ELSE Return([type |-> IF Len(response.value) = 1
                          THEN intentMap(response.value[1]) ELSE "general",
                 confidence |-> 8])

\* line.trim() on the lines of the model
Trim(line) ==
    CASE line = " " -> ""
      [] line = "how " -> "how"
      [] OTHER -> line

\* expandQuery without .slice(0, 3)
expandQuery_NoLimit(query, reply) ==
    LET response == generateText(reply) IN
    IF response.threw THEN Return(<<>>)
    ELSE LET lines == [i \in 1..Len(response.value) |-> Trim(response.value[i])]
         IN Return(SelectSeq(lines, LAMBDA l : l # "" /\ l # query))

\* expandQuery: trimmed non-empty lines other than the query, at most 3
expandQuery(query, reply) ==
    LET response == generateText(reply) IN
    IF response.threw THEN Return(<<>>)
    ELSE LET lines == [i \in 1..Len(response.value) |-> Trim(response.value[i])]
         IN Return(Slice(SelectSeq(lines, LAMBDA l : l # "" /\ l # query), 3))

-----------------------------------------------------------------------------
(* CustomVectorStoreAdapter: reaches the store's methods by name *)

\* the methods class CustomVectorStore defines
CustomVectorStoreMethods ==
    {"initialize", "searchDocuments", "vectorSearch", "generateResponseWithSources",
     "buildEnhancedPromptWithURLInstructions", "buildContextFromResults",
     "buildSourcesSection", "convertToDocusaurusUrl", "buildMarkdownSourcesSection",
     "buildFallbackMarkdownResponse", "buildFormattedContextFromResults",
     "scanCurrentDocuments", "tryLoadExistingIndex", "buildIndexFromScratch",
     "performIncrementalUpdate", "saveIndex", "cosineSimilarity"}

\* adapter.searchDocuments: any failure of the search is caught and gives []
\* .caught tells that the catch branch ran
Adapter_searchDocuments(docs, emb, query, topK, reply) ==
    LET r == IF "vectorSearch" \in CustomVectorStoreMethods
             THEN vectorSearch(docs, emb, query, topK, reply)
             ELSE Throw("Search method not available")
    IN IF r.threw THEN [results |-> <<>>, caught |-> TRUE]
       ELSE [results |-> r.value, caught |-> FALSE]

\* adapter.generateLLMFallback: the store method it looks up is awaited when it
\* exists; any failure gives the fixed "Information Not Found" text
Adapter_generateLLMFallback(query) ==
    LET r == IF "generateLLMFallbackResponse" \in CustomVectorStoreMethods
             THEN Return("llm_fallback_response")
             ELSE Throw("LLM fallback method not available")
    IN IF r.threw THEN [text |-> "information_not_found", provider |-> FALSE]
       ELSE [text |-> r.value, provider |-> TRUE]

\* CustomVectorStore.generateResponseWithSources, through the adapter
Adapter_generateResponseWithSources(queryText, results, reply) ==
    LET r == IF "generateResponseWithSources" \in CustomVectorStoreMethods
             THEN LET response == generateText(reply) IN
                  IF response.threw THEN Return("documentation_content+sources")
                  ELSE Return("answer+sources")
             ELSE Throw("Response with sources method not available")
    IN IF r.threw THEN "error_generating_response" ELSE r.value

\* the fixed text marks the answer as not grounded in the documentation
MarkedNotGrounded(text) == text = "information_not_found"

-----------------------------------------------------------------------------
(* The flow built by PocketFlowRAGService.buildRAGFlow *)

Nodes == {"intent", "expansion", "search", "context", "response", "fallback",
          "metadata", "error"}
NoNode == "none"

\* the constructor argument maxRetries of each node (Node's default is 1)
maxRetries(node) ==
    CASE node = "intent" -> 3
      [] node = "expansion" -> 2
      [] node = "response" -> 3
      [] node = "fallback" -> 2
      [] OTHER -> 1

\* Successor_NoFallbackEdge, Successor_SwappedSearchEdges: the graph with an edge
\* forgotten or miswired
Successor_NoFallbackEdge(node, action) ==
    CASE node = "intent" /\ action \in {"default", "troubleshooting", "example"} -> "expansion"
      [] node = "expansion" /\ action = "default" -> "search"
      [] node = "search" /\ action = "no_results" -> "fallback"
      [] node = "search" /\ action \in {"high_confidence", "low_confidence"} -> "context"
      [] node = "context" /\ action = "default" -> "response"
      [] node = "response" /\ action = "default" -> "metadata"
      [] node \in {"response", "fallback"} /\ action = "error" -> "error"
      [] OTHER -> NoNode

Successor_SwappedSearchEdges(node, action) ==
    CASE node = "intent" /\ action \in {"default", "troubleshooting", "example"} -> "expansion"
      [] node = "expansion" /\ action = "default" -> "search"
      [] node = "search" /\ action = "no_results" -> "context"
      [] node = "search" /\ action \in {"high_confidence", "low_confidence"} -> "fallback"
      [] node = "context" /\ action = "default" -> "response"
      [] node \in {"response", "fallback"} /\ action = "default" -> "metadata"
      [] node \in {"response", "fallback"} /\ action = "error" -> "error"
      [] OTHER -> NoNode

\* getNextNode: the successors registered with next() and on()
Successor(node, action) ==
    CASE node = "intent" /\ action \in {"default", "troubleshooting", "example"} -> "expansion"
      [] node = "expansion" /\ action = "default" -> "search"
      [] node = "search" /\ action = "no_results" -> "fallback"
      [] node = "search" /\ action \in {"high_confidence", "low_confidence"} -> "context"
      [] node = "context" /\ action = "default" -> "response"
      [] node \in {"response", "fallback"} /\ action = "default" -> "metadata"
      [] node \in {"response", "fallback"} /\ action = "error" -> "error"
      [] OTHER -> NoNode

\* const shared: RAGSharedData = { query }
NewShared(query) ==
    [query |-> Some(query), intent |-> None, expandedQueries |-> None,
     searchResults |-> None, queryResults |-> None, context |-> None,
     response |-> None, metadata |-> None, error |-> None]

\* Flow._orchestrate after post returned `action`: go to the successor, or end
Continue(sh, action) ==
    LET next == Successor(pc, action) IN
    /\ shared' = sh
    /\ currentRetry' = 0
    /\ searchIdx' = 1
    /\ allResults' = <<>>
    /\ pc' = IF next = NoNode THEN "flow_end" ELSE next
    /\ executed' = IF next = NoNode THEN executed ELSE Append(executed, next)
    /\ lastAction' = action
    /\ UNCHANGED <<runError, result, outcome>>

\* an exception leaves Flow.run
Propagate(message) ==
    /\ pc' = "catch"
    /\ runError' = Some(message)
    /\ UNCHANGED <<shared, currentRetry, searchIdx, allResults, result, outcome, executed,
                   lastAction>>

\* ExecThrew whose last attempt lets the flow go on along the default edge
ExecThrew_ContinuesGraph(message) ==
    IF currentRetry = maxRetries(pc) - 1
    THEN Continue(shared, "default")
    ELSE /\ currentRetry' = currentRetry + 1
         /\ UNCHANGED <<pc, shared, searchIdx, allResults, runError, result, outcome,
                        executed, lastAction>>

\* Node._exec: exec threw; the last attempt rethrows (execFallback), the others retry
ExecThrew(message) ==
    IF currentRetry = maxRetries(pc) - 1
    THEN Propagate(message)
    ELSE /\ currentRetry' = currentRetry + 1
         /\ UNCHANGED <<pc, shared, searchIdx, allResults, runError, result, outcome,
                        executed, lastAction>>

-----------------------------------------------------------------------------
(* Replies the provider may give *)

\* (with two calls in flight each provider call of the model has two outcomes, a
\* failure and one reply, and a caller passes one of two texts)
IntentReplies ==
    {ProviderFailure} \cup
    {ProviderReply(<<t>>) :
        t \in IF IsSome(other) THEN {"troubleshooting"}
              ELSE {"howto", "troubleshooting", "no idea"}}

LinesOver(S) == UNION {[1..n -> S] : n \in 1..MaxLines}

\* a reply with more phrasings than the prompt asked for, one of them the query
\* followed by a blank
LongReply(query) == <<"alt1", "", query, "how ", "alt2", "alt2", "alt1">>

ExpansionReplies(query) ==
    {ProviderFailure} \cup
    {ProviderReply(lines) :
        lines \in IF IsSome(other) THEN {<<"alt1">>}
                  ELSE LinesOver({"", " ", query, "alt1", "alt2"})
                       \cup {LongReply(query)}}

GenerationReplies ==
    {ProviderFailure} \cup
    (IF IsSome(other) THEN {ProviderReply(<<"answer">>)}
     ELSE {ProviderReply(<<"">>), ProviderReply(<<"answer">>)})

QueryEmbeddingReplies ==
    {ProviderFailure} \cup
    {ProviderReply(v) : v \in IF IsSome(other) THEN {<<1, 0>>} ELSE QueryVectors}

\* query texts a caller may pass
Queries == IF IsSome(other) THEN {"", "how"} ELSE {"", " ", "how"}

-----------------------------------------------------------------------------
(* The nodes: prep, exec and post *)

\* QueryIntentNode.prep
QueryIntent_prep(sh) ==
    IF OrEmpty(sh.query) = "" THEN Throw("Query is required") ELSE Return(Get(sh.query))

\* QueryIntentNode.exec: a failure of classifyQueryIntent would give the default
QueryIntent_exec(query, reply) ==
    LET r == classifyQueryIntent(query, reply) IN
    IF r.threw THEN Return(DefaultIntent) ELSE r

\* QueryIntentNode.post: the action routes on the intent type
QueryIntent_post(sh, execRes) ==
    [shared |-> [sh EXCEPT !.intent = Some(execRes)],
     action |-> IF execRes.type \in {"troubleshooting", "example"}
                THEN execRes.type ELSE "default"]

\* QueryExpansionNode.exec
QueryExpansion_exec(query, reply) ==
    LET r == expandQuery(query, reply) IN
    IF r.threw THEN Return(<<>>) ELSE r

\* VectorSearchNode.prep: allQueries = [input.query, ...input.expanded]
AllQueries(sh) == <<OrEmpty(sh.query)>> \o OrNoElements(sh.expandedQueries)

\* results.filter(index === self.findIndex(same document id)), without the filter
RECURSIVE UniqueResults_KeepsDuplicates(_, _)
UniqueResults_KeepsDuplicates(results, i) ==
    IF i > Len(results) THEN <<>>
    ELSE <<results[i]>> \o UniqueResults_KeepsDuplicates(results, i + 1)

\* the filter keeping the last occurrence of a document id, not the first
RECURSIVE UniqueResults_KeepsLast(_, _)
UniqueResults_KeepsLast(results, i) ==
    IF i > Len(results) THEN <<>>
    ELSE (IF \A j \in (i + 1)..Len(results) :
                results[j].document.id # results[i].document.id
          THEN <<results[i]>> ELSE <<>>)
         \o UniqueResults_KeepsLast(results, i + 1)

RECURSIVE UniqueResults(_, _)
UniqueResults(results, i) ==
    IF i > Len(results) THEN <<>>
    ELSE (IF \A j \in 1..(i - 1) : results[j].document.id # results[i].document.id
          THEN <<results[i]>> ELSE <<>>)
         \o UniqueResults(results, i + 1)

\* VectorSearchNode.post that sends an empty result list on to Context Building
VectorSearch_post_NoEmptyRoute(sh, execRes) ==
    [shared |-> [sh EXCEPT !.searchResults = Some(execRes), !.queryResults = Some(execRes)],
     action |-> IF Len(execRes) >= 3 THEN "high_confidence" ELSE "low_confidence"]

\* VectorSearchNode.post
VectorSearch_post(sh, execRes) ==
    [shared |-> [sh EXCEPT !.searchResults = Some(execRes), !.queryResults = Some(execRes)],
     action |-> IF Len(execRes) = 0 THEN "no_results"
                ELSE IF Len(execRes) >= 3 THEN "high_confidence"
                ELSE "low_confidence"]

\* ContextBuildingNode.exec: one "Document i: ..." block per result, '' for none
RECURSIVE ContextText(_, _)
ContextText(results, i) ==
    IF i > Len(results) THEN ""
    ELSE "Document: " \o results[i].document.id
         \o (IF i < Len(results) THEN " | " ELSE "")
         \o ContextText(results, i + 1)

\* ResponseGenerationNode.exec
ResponseGeneration_exec(context, reply) ==
    IF context = "" THEN Throw("No context available for response generation")
    ELSE LET r == generateText(reply) IN
         IF r.threw THEN r ELSE Return("answer")

ZeroSimilarity == [num |-> 0, den2 |-> 1]

\* input.searchResults?.[0]?.similarity || 0
TopRelevance(results) ==
    IF results = <<>> \/ IsNaN(results[1].similarity) \/ results[1].similarity.num = 0
    THEN ZeroSimilarity ELSE results[1].similarity

\* MetadataEnhancementNode.exec (the clock reading and the response length are left out)
MetadataEnhancement_exec(sh) ==
    [queryAnalysis |->
        [intent |-> IF IsSome(sh.intent) THEN Get(sh.intent).type ELSE "unknown",
         confidence |-> IF IsSome(sh.intent) THEN Get(sh.intent).confidence ELSE 0,
         expansions |-> Len(OrNoElements(sh.expandedQueries))],
     searchMetadata |->
        [documentsFound |-> Len(OrNoElements(sh.searchResults)),
         topRelevance |-> TopRelevance(OrNoElements(sh.searchResults))]]

\* ErrorHandlingNode: prep, exec and post; the text quotes the query and the message
ErrorHandling_run(sh) == [sh EXCEPT !.response = Some("system_error")]

-----------------------------------------------------------------------------
(* The data directory and the three files of the index storage directory *)

Paths == {"a.md", "b.md"}
PathOrder == <<"a.md", "b.md">>            \* the order readdirSync lists them in
FileContents == {"", "S1", "L1", "D1"}
Trees == [Paths -> {None} \cup {Some(c) : c \in FileContents}]

EmptyDisk == [documents |-> None, embeddings |-> None, hashes |-> None,
              truncated |-> FALSE]

\* findMarkdownFiles: the markdown files of the data directory
findMarkdownFiles(t) == SelectSeq(PathOrder, LAMBDA p : IsSome(t[p]))

\* What reading one file in scanCurrentDocuments may do: both reads succeed,
\* getFileContentHash throws, or processMarkdownFile throws after the hash was set
ReadOutcomes == {"ok", "hash_failed", "parse_failed"}

\* scanCurrentDocuments: the chunks and the fingerprints of the files it could read
RECURSIVE ScanChunks(_, _, _)
ScanChunks(files, t, reads) ==
    IF files = <<>> THEN <<>>
    ELSE (IF reads[files[1]] = "ok" THEN processMarkdownFile(files[1], Get(t[files[1]])) ELSE <<>>)
         \o ScanChunks(Tail(files), t, reads)

\* scanCurrentDocuments with the try around the loop instead of inside it: the
\* first file that fails ends the scan
scanCurrentDocuments_StopsAtFirstError(t, reads) ==
    LET files == findMarkdownFiles(t)
        bad == {i \in 1..Len(files) : reads[files[i]] # "ok"}
        scanned == IF bad = {} THEN files
                   ELSE SubSeq(files, 1, (CHOOSE i \in bad : \A j \in bad : i <= j))
    IN  [currentDocuments |-> ScanChunks(scanned, t, reads),
         currentFileHashes |->
            [p \in {q \in Range(scanned) : reads[q] # "hash_failed"} |->
                getFileContentHash(Get(t[p]))]]

scanCurrentDocuments(t, reads) ==
    LET files == findMarkdownFiles(t) IN
    [currentDocuments |-> ScanChunks(files, t, reads),
     currentFileHashes |->
        [p \in {q \in Range(files) : reads[q] # "hash_failed"} |->
            getFileContentHash(Get(t[p]))]]

\* loadStoredFileHashes: the stored table, or an empty Map when the file is missing
loadStoredFileHashes(d) == IF IsSome(d.hashes) THEN Get(d.hashes) ELSE <<>>

\* tryLoadExistingIndex without the catch around JSON.parse
CanLoadIndex_ParsesAnyFile(d) == IsSome(d.documents) /\ IsSome(d.embeddings)

\* tryLoadExistingIndex: false unless both files exist and JSON.parse takes them
CanLoadIndex(d) == IsSome(d.documents) /\ IsSome(d.embeddings) /\ ~d.truncated

-----------------------------------------------------------------------------
(* The two Maps of CustomVectorStore *)

\* Map.set on documents: an existing key keeps its position
DocSet(docs, doc) ==
    IF \E i \in 1..Len(docs) : docs[i].id = doc.id
    THEN [i \in 1..Len(docs) |-> IF docs[i].id = doc.id THEN doc ELSE docs[i]]
    ELSE Append(docs, doc)

DocDelete(docs, id) == SelectSeq(docs, LAMBDA d : d.id # id)

\* Map.set on embeddings; the value is optional (embeddings[i] may be undefined)
EmbSet(emb, id, v) == [k \in DOMAIN emb \cup {id} |-> IF k = id THEN v ELSE emb[k]]

EmbDelete(emb, id) == [k \in DOMAIN emb \ {id} |-> emb[k]]

\* JSON.stringify of the embeddings object drops the undefined values
StoredEmbeddings(emb) == [k \in {j \in DOMAIN emb : IsSome(emb[j])} |-> emb[k]]

Ids(chunks) == [i \in 1..Len(chunks) |-> chunks[i].id]

\* the file paths of a chunk list, in order of first appearance (a Set)
RECURSIVE DistinctPaths(_)
DistinctPaths(chunks) ==
    IF chunks = <<>> THEN <<>>
    ELSE LET rest == DistinctPaths(SubSeq(chunks, 1, Len(chunks) - 1))
             last == chunks[Len(chunks)].metadata.file_path
         IN  IF last \in Range(rest) THEN rest ELSE Append(rest, last)

ChunksOfPath(chunks, p) == SelectSeq(chunks, LAMBDA d : d.metadata.file_path = p)

\* GeminiService.getTextEmbeddings: empty texts are filtered out and a text whose
\* call fails is skipped, so the result may be shorter than texts
RECURSIVE getTextEmbeddings(_, _)
getTextEmbeddings(texts, failing) ==
    IF texts = <<>> THEN <<>>
    ELSE (IF IsBlank(texts[1]) \/ texts[1] \in failing
          THEN <<>> ELSE <<ProviderVector(texts[1])>>)
         \o getTextEmbeddings(Tail(texts), failing)

\* embeddings[i] of a JavaScript array: undefined past its end
At(s, i) == IF i \in 1..Len(s) THEN Some(s[i]) ELSE None

\* tryLoadExistingIndex when both files are there: the Maps are cleared and filled
\* from the stored array and the stored object, entry by entry
RECURSIVE LoadDocuments(_, _)
LoadDocuments(docs, storedDocuments) ==
    IF storedDocuments = <<>> THEN docs
    ELSE LoadDocuments(DocSet(docs, storedDocuments[1]), Tail(storedDocuments))

tryLoadExistingIndex(d) ==
    [documents |-> LoadDocuments(<<>>, Get(d.documents)),
     embeddings |-> [id \in DOMAIN Get(d.embeddings) |-> Get(d.embeddings)[id]]]

-----------------------------------------------------------------------------
(* buildIndexFromScratch, up to the two Maps *)

RECURSIVE StoreBatch(_, _, _, _)
StoreBatch(index, batch, vectors, j) ==
    IF j > Len(batch) \/ j > Len(vectors) THEN index
    ELSE StoreBatch([documents |-> DocSet(index.documents, batch[j]),
                     embeddings |-> EmbSet(index.embeddings, batch[j].id, Some(vectors[j]))],
                    batch, vectors, j + 1)

\* for (let i = 0; i < validDocuments.length; i += batchSize): getTextEmbeddings
\* does not throw, so the catch block of the batch is never entered.
\* .calls lists the texts handed to getTextEmbeddings, batch by batch
RECURSIVE ProcessBatches(_, _, _, _)
ProcessBatches(built, validDocuments, failing, i) ==
    IF i > Len(validDocuments) THEN built
    ELSE LET last == IF i + batchSize - 1 < Len(validDocuments)
                     THEN i + batchSize - 1 ELSE Len(validDocuments)
             batch == SubSeq(validDocuments, i, last)
             texts == [j \in 1..Len(batch) |-> batch[j].text]
             stored == StoreBatch([documents |-> built.documents,
                                   embeddings |-> built.embeddings],
                                  batch, getTextEmbeddings(texts, failing), 1)
         IN ProcessBatches([documents |-> stored.documents,
                            embeddings |-> stored.embeddings,
                            calls |-> Append(built.calls, texts)],
                           validDocuments, failing, i + batchSize)

BuildBatches(currentDocuments, failing) ==
    ProcessBatches([documents |-> <<>>, embeddings |-> <<>>, calls |-> <<>>],
                   SelectSeq(currentDocuments, LAMBDA d : ~IsBlank(d.text)), failing, 1)

buildIndexFromScratch(currentDocuments, failing) ==
    LET built == BuildBatches(currentDocuments, failing) IN
    [documents |-> built.documents, embeddings |-> built.embeddings]

-----------------------------------------------------------------------------
(* performIncrementalUpdate, up to the two Maps *)

\* chunk ids of the stored files that are no longer among the current files
RECURSIVE DeletedFileIds(_, _, _)
DeletedFileIds(storedPaths, currentPaths, docs) ==
    IF storedPaths = <<>> THEN <<>>
    ELSE (IF storedPaths[1] \notin Range(currentPaths)
          THEN Ids(ChunksOfPath(docs, storedPaths[1])) ELSE <<>>)
         \o DeletedFileIds(Tail(storedPaths), currentPaths, docs)

IsNewFile(p, storedHashes) == p \notin DOMAIN storedHashes

\* Map.get: undefined for a missing key
HashOf(hashes, p) == IF p \in DOMAIN hashes THEN Some(hashes[p]) ELSE None

\* storedHash is there and currentHash !== storedHash
IsUpdatedFile(p, storedHashes, currentHashes) ==
    /\ p \in DOMAIN storedHashes
    /\ HashOf(currentHashes, p) # Some(storedHashes[p])

\* the second loop: what it pushes to documentIdsToDelete and documentsToInsert
RECURSIVE UpdatedFileIds(_, _, _, _)
UpdatedFileIds(currentPaths, storedHashes, currentHashes, docs) ==
    IF currentPaths = <<>> THEN <<>>
    ELSE (IF IsUpdatedFile(currentPaths[1], storedHashes, currentHashes)
          THEN Ids(ChunksOfPath(docs, currentPaths[1])) ELSE <<>>)
         \o UpdatedFileIds(Tail(currentPaths), storedHashes, currentHashes, docs)

RECURSIVE NewAndUpdatedChunks(_, _, _, _)
NewAndUpdatedChunks(currentPaths, storedHashes, currentHashes, currentDocuments) ==
    IF currentPaths = <<>> THEN <<>>
    ELSE (IF \/ IsNewFile(currentPaths[1], storedHashes)
             \/ IsUpdatedFile(currentPaths[1], storedHashes, currentHashes)
          THEN ChunksOfPath(currentDocuments, currentPaths[1]) ELSE <<>>)
         \o NewAndUpdatedChunks(Tail(currentPaths), storedHashes, currentHashes,
                                currentDocuments)

RECURSIVE ApplyDeletions(_, _)
ApplyDeletions(index, ids) ==
    IF ids = <<>> THEN index
    ELSE ApplyDeletions([documents |-> DocDelete(index.documents, ids[1]),
                         embeddings |-> EmbDelete(index.embeddings, ids[1])], Tail(ids))

RECURSIVE ApplyInserts(_, _, _, _)
ApplyInserts(index, chunks, vectors, i) ==
    IF i > Len(chunks) THEN index
    ELSE ApplyInserts([documents |-> DocSet(index.documents, chunks[i]),
                       embeddings |-> EmbSet(index.embeddings, chunks[i].id, At(vectors, i))],
                      chunks, vectors, i + 1)

\* performIncrementalUpdate, the two loops: what is to delete and to insert
IncrementalChanges(index, scan, storedHashes) ==
    LET currentPaths == DistinctPaths(scan.currentDocuments)
        storedPaths == DistinctPaths(index.documents)
    IN  [toDelete |->
            DeletedFileIds(storedPaths, currentPaths, index.documents)
            \o UpdatedFileIds(currentPaths, storedHashes, scan.currentFileHashes,
                              index.documents),
         toInsert |->
            NewAndUpdatedChunks(currentPaths, storedHashes, scan.currentFileHashes,
                                scan.currentDocuments)]

\* performIncrementalUpdate, applying the changes (there are some)
performIncrementalUpdate(index, changes, failing) ==
    LET texts == [i \in 1..Len(changes.toInsert) |-> changes.toInsert[i].text] IN
    ApplyInserts(ApplyDeletions(index, changes.toDelete), changes.toInsert,
                 getTextEmbeddings(texts, failing), 1)

-----------------------------------------------------------------------------
(* Writing the three files *)

\* Which writeFileSync of a pass fails, if any
WriteOutcomes == {"ok", "documents_failed", "embeddings_failed", "embeddings_truncated",
                  "hashes_failed"}

\* saveIndex: documents.json, then embeddings.json; a failed write throws, and the
\* write of embeddings.json may fail before or after it cut the file
saveIndex(d, index, w) ==
    IF w = "documents_failed" THEN [disk |-> d, written |-> {}, threw |-> TRUE]
    ELSE IF w = "embeddings_failed"
    THEN [disk |-> [d EXCEPT !.documents = Some(index.documents)],
          written |-> {"documents"}, threw |-> TRUE]
    ELSE IF w = "embeddings_truncated"
    THEN [disk |-> [d EXCEPT !.documents = Some(index.documents),
                             !.embeddings = Some(<<>>),
                             !.truncated = TRUE],
          written |-> {"documents"}, threw |-> TRUE]
    ELSE [disk |-> [d EXCEPT !.documents = Some(index.documents),
                             !.embeddings = Some(StoredEmbeddings(index.embeddings)),
                             !.truncated = FALSE],
          written |-> {"documents", "embeddings"}, threw |-> FALSE]

\* saveStoredFileHashes: a failed write is logged and swallowed
saveStoredFileHashes(d, fileHashes, w) ==
    IF w = "hashes_failed" THEN [disk |-> d, written |-> {}]
    ELSE [disk |-> [d EXCEPT !.hashes = Some(fileHashes)], written |-> {"hashes"}]

\* saveIndex followed by saveStoredFileHashes, as both passes end
SaveAll(d, index, fileHashes, w) ==
    LET saved == saveIndex(d, index, w) IN
    IF saved.threw THEN saved
    ELSE LET table == saveStoredFileHashes(saved.disk, fileHashes, w) IN
         [disk |-> table.disk, written |-> saved.written \cup table.written,
          threw |-> FALSE]

-----------------------------------------------------------------------------
(* CustomVectorStore.initialize(): one action per call *)

MaxPasses == 3       \* initialize() calls (process starts) in a behaviour
MaxEdits == 1        \* edits of the data directory between two calls
MaxFaults == 1       \* failed reads, embedding calls and writes in a behaviour

\* The reads that may fail are those of the files that exist
ScanReads(t) == {r \in [Paths -> ReadOutcomes] : \A p \in Paths : t[p] = None => r[p] = "ok"}

FailedReads(reads) == {p \in Paths : reads[p] # "ok"}

\* the texts getTextEmbeddings calls the provider for
EmbeddedTexts(chunks) == {chunks[i].text : i \in 1..Len(chunks)} \ {"", " "}

EmptyIndex == [documents |-> <<>>, embeddings |-> <<>>]

NoChanges == [toInsert |-> <<>>, toDelete |-> <<>>]

\* the one path whose content differs between two trees, if there is exactly one
\* and the file is in both
ChangedContent(t1, t2) ==
    LET diff == {p \in Paths : t1[p] # t2[p]} IN
    IF Cardinality(diff) = 1 /\ \A p \in diff : IsSome(t1[p]) /\ IsSome(t2[p])
    THEN Some(CHOOSE p \in diff : TRUE) ELSE None

WriteFaults(w) == IF w = "ok" THEN 0 ELSE 1

\* the one path that is in t1 and no longer in t2, if there is exactly one and
\* every other path has a file with the same content in both
RemovedFile(t1, t2) ==
    LET diff == {p \in Paths : t1[p] # t2[p]} IN
    IF /\ Cardinality(diff) = 1
       /\ \A p \in diff : IsSome(t1[p]) /\ t2[p] = None
       /\ \A p \in Paths \ diff : IsSome(t1[p])
    THEN Some(CHOOSE p \in diff : TRUE) ELSE None

\* the history of a call that scanned with `reads`, entered the update with the
\* index `before`, computed `changes` and ended its writes, of which `w` tells
\* the one that failed, as `saved`
RecordPass(kind, reads, before, changes, saved, w, failing) ==
    /\ passKind' = kind
    /\ toInsert' = changes.toInsert
    /\ toDelete' = changes.toDelete
    /\ loaded' = before
    /\ written' = saved.written
    /\ scanFaults' = FailedReads(reads)
    /\ onlyChanged' = IF IsSome(passTree) /\ phase = "ready"
                      THEN ChangedContent(Get(passTree), tree) ELSE None
    /\ onlyRemoved' = IF IsSome(passTree) /\ phase = "ready"
                      THEN RemovedFile(Get(passTree), tree) ELSE None
    /\ diskBefore' = disk
    /\ writeFault' = w
    /\ embedFaults' = failing
    /\ pending' = None
    /\ passTree' = Some(tree)
    /\ sinceTree' = (snapshotTree = Some(tree) /\ tableTree = Some(tree))
    /\ snapshotTree' = IF {"documents", "embeddings"} \subseteq saved.written THEN Some(tree)
                       ELSE IF "documents" \in saved.written THEN None
                       ELSE snapshotTree
    /\ tableTree' = IF "hashes" \in saved.written THEN Some(tree) ELSE tableTree
    /\ phase' = IF saved.threw THEN "crashed" ELSE "ready"
    /\ passes' = passes + 1
    /\ edits' = 0
    /\ faults' = faults + Cardinality(FailedReads(reads)) + Cardinality(failing)
                        + WriteFaults(w)

\* initialize() when tryLoadExistingIndex returns false: buildIndexFromScratch.
\* (initialize() is called by bootstrap() in a new process, before the routes
\* exist: no query() call is in flight.)
InitializeFromScratch ==
    /\ passes < MaxPasses
    /\ phase # "updating"
    /\ pc = "idle"
    /\ ~CanLoadIndex(disk)
    /\ \E reads \in ScanReads(tree), w \in WriteOutcomes :
         LET scan == scanCurrentDocuments(tree, reads) IN
         \E failing \in SUBSET EmbeddedTexts(scan.currentDocuments) :
            LET built == buildIndexFromScratch(scan.currentDocuments, failing)
                saved == SaveAll(disk, built, scan.currentFileHashes, w)
                failed == Cardinality(FailedReads(reads)) + Cardinality(failing)
                          + WriteFaults(w)
            IN  /\ faults + failed <= MaxFaults
                /\ documents' = built.documents
                /\ embeddings' = built.embeddings
                /\ disk' = saved.disk
                /\ RecordPass("build", reads, EmptyIndex, NoChanges, saved, w, failing)
    /\ UNCHANGED <<tree, runVars, histVars, callVars, searchVars, unitVars>>

\* initialize() when tryLoadExistingIndex returns true: performIncrementalUpdate
\* over the loaded index, which returns early when there is nothing to change
InitializeIncremental ==
    /\ passes < MaxPasses
    /\ phase # "updating"
    /\ pc = "idle"
    /\ CanLoadIndex(disk)
    /\ \E reads \in ScanReads(tree) :
         LET scan == scanCurrentDocuments(tree, reads)
             before == tryLoadExistingIndex(disk)
             changes == IncrementalChanges(before, scan, loadStoredFileHashes(disk))
         IN
         IF changes = NoChanges
         THEN /\ faults + Cardinality(FailedReads(reads)) <= MaxFaults
              /\ documents' = before.documents
              /\ embeddings' = before.embeddings
              /\ disk' = disk
              /\ RecordPass("update", reads, before, changes,
                            [written |-> {}, threw |-> FALSE], "ok", {})
         ELSE \E w \in WriteOutcomes, failing \in SUBSET EmbeddedTexts(changes.toInsert) :
                LET index == performIncrementalUpdate(before, changes, failing)
                    saved == SaveAll(disk, index, scan.currentFileHashes, w)
                    failed == Cardinality(FailedReads(reads)) + Cardinality(failing)
                              + WriteFaults(w)
                IN  /\ faults + failed <= MaxFaults
                    /\ documents' = index.documents
                    /\ embeddings' = index.embeddings
                    /\ disk' = saved.disk
                    /\ RecordPass("update", reads, before, changes, saved, w, failing)
    /\ UNCHANGED <<tree, runVars, histVars, callVars, searchVars, unitVars>>

\* initialize() over a loaded index with something to insert, up to the await of
\* getTextEmbeddings: the deletions are applied to the two Maps
InitializeIncrementalBegin ==
    /\ passes < MaxPasses
    /\ phase # "updating"
    /\ pc = "idle"
    /\ CanLoadIndex(disk)
    /\ \E reads \in ScanReads(tree) :
         LET scan == scanCurrentDocuments(tree, reads)
             before == tryLoadExistingIndex(disk)
             changes == IncrementalChanges(before, scan, loadStoredFileHashes(disk))
             index == ApplyDeletions(before, changes.toDelete)
         IN  /\ changes.toInsert # <<>>
             /\ faults + Cardinality(FailedReads(reads)) <= MaxFaults
             /\ documents' = index.documents
             /\ embeddings' = index.embeddings
             /\ pending' = Some([reads |-> reads, before |-> before, changes |-> changes,
                                 currentFileHashes |-> scan.currentFileHashes])
    /\ phase' = "updating"
    /\ UNCHANGED <<tree, disk, passes, edits, faults, passKind, toInsert, toDelete, loaded,
                   written, scanFaults, passTree, onlyChanged, onlyRemoved, diskBefore,
                   writeFault, embedFaults, snapshotTree, tableTree, sinceTree,
                   runVars, histVars, callVars, searchVars, unitVars>>

\* the rest of that call: the embeddings arrive, the chunks are stored, the files
\* are written
InitializeIncrementalEnd ==
    /\ phase = "updating"
    /\ LET call == Get(pending) IN
       \E w \in WriteOutcomes, failing \in SUBSET EmbeddedTexts(call.changes.toInsert) :
          LET texts == [i \in 1..Len(call.changes.toInsert) |-> call.changes.toInsert[i].text]
              index == ApplyInserts([documents |-> documents, embeddings |-> embeddings],
                                    call.changes.toInsert,
                                    getTextEmbeddings(texts, failing), 1)
              saved == SaveAll(disk, index, call.currentFileHashes, w)
              failed == Cardinality(FailedReads(call.reads)) + Cardinality(failing)
                        + WriteFaults(w)
          IN  /\ faults + failed <= MaxFaults
              /\ documents' = index.documents
              /\ embeddings' = index.embeddings
              /\ disk' = saved.disk
              /\ RecordPass("update", call.reads, call.before, call.changes, saved, w,
                            failing)
    /\ UNCHANGED <<tree, runVars, histVars, callVars, searchVars, unitVars>>

\* An author writes or removes one file of the data directory between two calls
EditTree ==
    /\ passes < MaxPasses
    /\ edits < MaxEdits
    /\ \E p \in Paths, c \in {None} \cup {Some(x) : x \in FileContents} :
        /\ tree[p] # c
        /\ tree' = [tree EXCEPT ![p] = c]
    /\ edits' = edits + 1
    /\ phase # "updating"
    /\ UNCHANGED <<indexVars, disk, phase, passes, faults, pending, passKind, toInsert, toDelete,
                   loaded, written, scanFaults, passTree, onlyChanged, onlyRemoved,
                   diskBefore, writeFault, embedFaults, snapshotTree, tableTree,
                   sinceTree, runVars, histVars, callVars, searchVars, unitVars>>

\* no initialize() call has been made
NoPassYet ==
    /\ disk = EmptyDisk
    /\ passes = 0
    /\ edits = 0
    /\ faults = 0
    /\ pending = None
    /\ passKind = "none"
    /\ toInsert = <<>>
    /\ toDelete = <<>>
    /\ loaded = EmptyIndex
    /\ written = {}
    /\ scanFaults = {}
    /\ passTree = None
    /\ onlyChanged = None
    /\ onlyRemoved = None
    /\ diskBefore = EmptyDisk
    /\ writeFault = "ok"
    /\ embedFaults = {}
    /\ snapshotTree = None
    /\ tableTree = None
    /\ sinceTree = FALSE

NoAttempts == [n \in Nodes |-> [calls |-> 0, failed |-> 0]]

\* exec of `node` made its call, which failed or not
Attempt(node, failed) ==
    [attempts EXCEPT ![node] = [calls |-> @.calls + 1,
                                failed |-> @.failed + (IF failed THEN 1 ELSE 0)]]

\* the run context before query() is called
FreshContext ==
    [pc |-> "idle", shared |-> NewShared(""), currentRetry |-> 0, searchIdx |-> 1,
     allResults |-> <<>>, runError |-> None, result |-> None, outcome |-> "pending",
     executed |-> <<>>, generateCalls |-> {}, searchErrors |-> {},
     queryEmbedding |-> None, intentFailed |-> FALSE, lastAction |-> NoNode,
     attempts |-> NoAttempts]

NoSearch == [queryVector |-> <<>>, topK |-> 0]

\* no query() call has been made, and there is one caller
NoRunYet ==
    /\ other = None
    /\ focus = 1
    /\ asked = NoSearch
    /\ found = None
    /\ args = None
    /\ ret = None
    /\ pc = "idle"
    /\ shared = NewShared("")
    /\ currentRetry = 0
    /\ searchIdx = 1
    /\ allResults = <<>>
    /\ runError = None
    /\ result = None
    /\ outcome = "pending"
    /\ executed = <<>>
    /\ generateCalls = {}
    /\ searchErrors = {}
    /\ queryEmbedding = None
    /\ intentFailed = FALSE
    /\ lastAction = NoNode
    /\ attempts = NoAttempts

IngestInit ==
    /\ documents = <<>>
    /\ embeddings = <<>>
    /\ tree \in Trees
    /\ phase = "stopped"
    /\ NoPassYet
    /\ NoRunYet

IngestNext ==
    \/ EditTree
    \/ InitializeFromScratch
    \/ InitializeIncremental

\* the service is started again and again over a data directory that authors edit
IngestSpec == IngestInit /\ [][IngestNext]_vars

-----------------------------------------------------------------------------
(* Properties of the incremental update *)

EmbeddingOf(emb, id) == IF id \in DOMAIN emb THEN emb[id] ELSE None

\* C9: idempotence of reconciliation: an incremental update over a tree that is
\* unchanged since the snapshot and the fingerprint table were persisted computes
\* empty insert and delete sets, leaves the index in memory as it was loaded and
\* writes no file.
C9_UnchangedTreeIsNoOp ==
    (passKind = "update" /\ sinceTree) =>
        /\ toInsert = <<>>
        /\ toDelete = <<>>
        /\ documents = loaded.documents
        /\ embeddings = loaded.embeddings
        /\ written = {}

\* C10: incrementality isolation: when only the content of file A changed since
\* the previous pass, the insert and delete sets of the incremental update hold
\* only chunks of A, and the stored chunks and embeddings of the other files are
\* what they were.
C10_OnlyChangedFileIsTouched ==
    (passKind = "update" /\ IsSome(onlyChanged)) =>
        LET A == Get(onlyChanged) IN
        /\ \A i \in 1..Len(toInsert) : toInsert[i].metadata.file_path = A
        /\ \A i \in 1..Len(toDelete) : \A d \in Range(loaded.documents) :
              d.id = toDelete[i] => d.metadata.file_path = A
        /\ \A d \in Range(loaded.documents) : d.metadata.file_path # A =>
              /\ d \in Range(documents)
              /\ EmbeddingOf(embeddings, d.id) = EmbeddingOf(loaded.embeddings, d.id)
        /\ \A d \in Range(documents) : d.metadata.file_path # A =>
              d \in Range(loaded.documents)

\* the stored chunks of a file
ChunksOfFile(docs, p) == {d \in Range(docs) : d.metadata.file_path = p}

\* C11: deletion: when file B was removed from the tree since the previous pass
\* completed and every other file is as it was, the incremental update deletes
\* exactly the stored chunk ids of B, inserts nothing, and no chunk and no
\* embedding of B is in the index afterwards.
C11_RemovedFileIsDeleted ==
    (passKind = "update" /\ IsSome(onlyRemoved)) =>
        LET B == Get(onlyRemoved)
            idsOfB == {d.id : d \in ChunksOfFile(loaded.documents, B)}
        IN  /\ Range(toDelete) = idsOfB
            /\ toInsert = <<>>
            /\ ChunksOfFile(documents, B) = {}
            /\ \A id \in idsOfB : id \notin DOMAIN embeddings

\* the file was read and parsed by the last call, and file_hashes.json as the call
\* found it had the file under another fingerprint
FileChanged(p) ==
    /\ IsSome(passTree)
    /\ IsSome(Get(passTree)[p])
    /\ p \notin scanFaults
    /\ p \in DOMAIN loadStoredFileHashes(diskBefore)
    /\ loadStoredFileHashes(diskBefore)[p] # getFileContentHash(Get(Get(passTree)[p]))

\* C12: changed file: when a file is in the fingerprint table and in the tree with
\* a different fingerprint, the incremental update deletes all of its stored
\* chunks and inserts all of its freshly produced chunks, and afterwards the
\* stored chunks of the file are exactly the fresh chunk set.
C12_ChangedFileIsReplaced ==
    passKind = "update" =>
        \A p \in Paths : FileChanged(p) =>
            LET fresh == Range(processMarkdownFile(p, Get(Get(passTree)[p]))) IN
            /\ {d.id : d \in ChunksOfFile(loaded.documents, p)} \subseteq Range(toDelete)
            /\ fresh \subseteq Range(toInsert)
            /\ ChunksOfFile(documents, p) = fresh

\* every chunk of docs has a vector under its id in emb
AllEmbedded(docs, emb) ==
    \A d \in Range(docs) : IsSome(EmbeddingOf(emb, d.id)) /\ Get(EmbeddingOf(emb, d.id)) # <<>>

\* C13: after a completed ingestion pass, build or update, every chunk in the
\* index in memory and every chunk in documents.json has a valid embedding vector
\* under the same id (in memory, in embeddings.json): a chunk whose embedding
\* could not be obtained is neither kept nor persisted.
C13_EveryChunkHasEmbedding ==
    (passKind # "none" /\ phase = "ready") =>
        /\ AllEmbedded(documents, embeddings)
        /\ IsSome(disk.documents) =>
              /\ IsSome(disk.embeddings)
              /\ AllEmbedded(Get(disk.documents), Get(disk.embeddings))

\* C14: a failed write of documents.json, embeddings.json or file_hashes.json
\* during an ingestion pass makes initialize() fail, and the three files are
\* left as the pass found them (the complete previous snapshot, no mix of new and
\* old files).
C14_FailedWriteIsFatalAndAtomic ==
    (passKind # "none" /\ writeFault # "ok") =>
        /\ phase = "crashed"
        /\ disk = diskBefore

\* file_hashes.json records the file with the fingerprint of the content the last
\* call scanned
RecordedUpToDate(p) ==
    /\ IsSome(passTree)
    /\ IsSome(Get(passTree)[p])
    /\ p \in DOMAIN loadStoredFileHashes(disk)
    /\ loadStoredFileHashes(disk)[p] = getFileContentHash(Get(Get(passTree)[p]))

\* the ids of the chunks with text that the chunker makes of the file the last
\* call scanned
IndexableIds(p) ==
    {d.id : d \in {c \in Range(processMarkdownFile(p, Get(Get(passTree)[p]))) : ~IsBlank(c.text)}}

\* C15: after an ingestion pass the fingerprint table records a file with its
\* current fingerprint only if the file's chunks are in the persisted index
\* (documents.json with a vector in embeddings.json), and a pass writes the table
\* only after both index files were written.
C15_TableReflectsPersistedIndex ==
    passKind # "none" =>
        /\ \A p \in Paths : RecordedUpToDate(p) =>
              \A id \in IndexableIds(p) :
                 /\ IsSome(disk.documents)
                 /\ \E d \in Range(Get(disk.documents)) : d.id = id
                 /\ IsSome(disk.embeddings)
                 /\ id \in DOMAIN Get(disk.embeddings)
        /\ "hashes" \in written => {"documents", "embeddings"} \subseteq written

\* saveIndex into an empty index_storage, then tryLoadExistingIndex
SaveThenLoad(index) == tryLoadExistingIndex(saveIndex(EmptyDisk, index, "ok").disk)

\* C16: round trip: for every index state an ingestion pass leaves in memory,
\* saving it and loading it again gives chunk and embedding Maps equal to the
\* saved ones: the same ids, the same text and metadata for each chunk, the same
\* vector for each id.
C16_SaveLoadRoundTrip ==
    passKind # "none" =>
        LET index == [documents |-> documents, embeddings |-> embeddings] IN
        /\ SaveThenLoad(index).documents = documents
        /\ SaveThenLoad(index).embeddings = embeddings

\* the chunks the chunker makes of the files of the tree the last call scanned
LiveChunks ==
    UNION {Range(processMarkdownFile(p, Get(Get(passTree)[p]))) :
              p \in {q \in Paths : IsSome(Get(passTree)[q])}}

\* C17: startup: initialize() does exactly one of two things. When the call finds
\* no snapshot (documents.json or embeddings.json missing, or not parseable) it
\* builds from an empty index, whatever the fingerprint table says: nothing is
\* loaded, nothing is deleted, the index holds only chunks of the live tree, and
\* unless a read or an embedding call failed it holds every chunk with text of
\* every file. When it finds a snapshot it loads exactly that snapshot and
\* reconciles it with the live tree: what is inserted are chunks of the live
\* tree, and the index afterwards is the loaded one minus the deleted ids plus
\* the inserted chunks.
C17_StartupBuildsOrReconciles ==
    passKind # "none" =>
        IF /\ IsSome(diskBefore.documents)
           /\ IsSome(diskBefore.embeddings)
           /\ ~diskBefore.truncated
        THEN /\ passKind = "update"
             /\ loaded.documents = Get(diskBefore.documents)
             /\ \A d \in Range(loaded.documents) :
                   EmbeddingOf(loaded.embeddings, d.id)
                       = EmbeddingOf(Get(diskBefore.embeddings), d.id)
             /\ Range(toInsert) \subseteq LiveChunks
             /\ Range(documents) \subseteq Range(loaded.documents) \cup Range(toInsert)
             /\ \A d \in Range(loaded.documents) \ Range(documents) :
                   d.id \in Range(toDelete) \cup Range(Ids(toInsert))
        ELSE /\ passKind = "build"
             /\ loaded = EmptyIndex
             /\ toDelete = <<>>
             /\ Range(documents) \subseteq LiveChunks
             /\ (scanFaults = {} /\ embedFaults = {}) =>
                   \A c \in LiveChunks : ~IsBlank(c.text) =>
                       \E d \in Range(documents) : d.id = c.id

\* a build over a tree with files, made although a fingerprint table was there,
\* because embeddings.json had been cut short
C17_Witness ==
    /\ passKind = "build"
    /\ diskBefore.truncated
    /\ IsSome(diskBefore.hashes)
    /\ documents # <<>>

\* C25: when reading or processing a file throws during the scan, initialize()
\* still completes and the other files are chunked and indexed: a full build
\* stores every chunk of theirs with its vector; an incremental update inserts
\* every chunk of those that are new or changed and leaves the stored chunks of
\* the others alone.  (Passes in which a write or an embedding call failed as well
\* are left aside.)
C25_ScanErrorsAreContained ==
    (passKind # "none" /\ scanFaults # {} /\ writeFault = "ok" /\ embedFaults = {}) =>
        /\ phase = "ready"
        /\ \A p \in Paths \ scanFaults : IsSome(Get(passTree)[p]) =>
            LET content == Get(Get(passTree)[p])
                fresh == processMarkdownFile(p, content)
                storedHashes == loadStoredFileHashes(diskBefore)
            IN  IF passKind = "build"
                THEN \A id \in IndexableIds(p) :
                        /\ \E d \in Range(documents) : d.id = id
                        /\ HasEmbedding(embeddings, id)
                ELSE IF HashOf(storedHashes, p) # Some(getFileContentHash(content))
                THEN /\ ChunksOfPath(toInsert, p) = fresh
                     /\ \A c \in Range(fresh) : \E d \in Range(documents) : d.id = c.id
                ELSE /\ ChunksOfPath(toInsert, p) = <<>>
                     /\ ChunksOfFile(documents, p) = ChunksOfFile(loaded.documents, p)

\* a.md could not be read, and the pass indexed the two chunks of b.md
C25_Witness ==
    /\ passKind # "none"
    /\ scanFaults = {"a.md"}
    /\ writeFault = "ok"
    /\ embedFaults = {}
    /\ phase = "ready"
    /\ Get(passTree)["b.md"] = Some("L1")
    /\ Cardinality(ChunksOfFile(documents, "b.md")) = 2
    /\ \A d \in Range(documents) : HasEmbedding(embeddings, d.id)

-----------------------------------------------------------------------------
(* Index states a query may run against: what a full build without a failed *)
(* embedding leaves in memory for a scanned file list, and the same with    *)
(* one vector missing (a chunk stored by an update whose embedding failed). *)

RECURSIVE ChunksOfFiles(_)
ChunksOfFiles(files) ==
    IF files = <<>> THEN <<>>
    ELSE processMarkdownFile(files[1].path, files[1].content) \o ChunksOfFiles(Tail(files))

EmbeddingsOf(docs) ==
    [id \in {docs[i].id : i \in 1..Len(docs)} |->
        LET d == CHOOSE d \in Range(docs) : d.id = id IN Some(ProviderVector(d.text))]

SampleFileLists ==
    { <<>>,
      <<[path |-> "a.md", content |-> "L1"]>>,
      <<[path |-> "a.md", content |-> "L1"], [path |-> "b.md", content |-> "L2"],
        [path |-> "c.md", content |-> "L3"]>> }

SampleIndexes ==
    {[documents |-> ChunksOfFiles(f), embeddings |-> EmbeddingsOf(ChunksOfFiles(f))] :
        f \in SampleFileLists}
    \cup
    {[documents |-> ChunksOfFiles(<<[path |-> "a.md", content |-> "L1"]>>),
      embeddings |-> [EmbeddingsOf(ChunksOfFiles(<<[path |-> "a.md", content |-> "L1"]>>))
                        EXCEPT !["a.md#setup"] = None]]}
    \cup
    \* (the provider does not promise a vector of non-zero norm)
    {[documents |-> ChunksOfFiles(<<[path |-> "a.md", content |-> "L2"]>>),
      embeddings |-> [EmbeddingsOf(ChunksOfFiles(<<[path |-> "a.md", content |-> "L2"]>>))
                        EXCEPT !["a.md#setup"] = Some(<<0, 0>>)]]}

-----------------------------------------------------------------------------
(* PocketFlowRAGService.query: one action per node execution attempt *)

\* query(): the run starts at the intent node with a fresh shared object; the
\* route that calls it is served once bootstrap() has awaited initialize()
StartQuery ==
    /\ phase = "ready"
    /\ pc \in {"idle", "done"}
    /\ \E q \in Queries :
        /\ shared' = NewShared(q)
        /\ pc' = "intent"
        /\ executed' = <<"intent">>
    /\ currentRetry' = 0
    /\ searchIdx' = 1
    /\ allResults' = <<>>
    /\ runError' = None
    /\ result' = None
    /\ outcome' = "pending"
    /\ generateCalls' = {}
    /\ searchErrors' = {}
    /\ queryEmbedding' = None
    /\ intentFailed' = FALSE
    /\ lastAction' = NoNode
    /\ attempts' = NoAttempts
    /\ UNCHANGED storeVars

QueryIntentNode ==
    /\ pc = "intent"
    /\ LET p == QueryIntent_prep(shared) IN
       IF p.threw
       THEN /\ Propagate(p.message)
            /\ UNCHANGED <<generateCalls, intentFailed, attempts>>
       ELSE \E reply \in IntentReplies :
            LET e == QueryIntent_exec(p.value, reply) IN
            /\ generateCalls' = generateCalls \cup {"intent"}
            /\ intentFailed' = generateText(reply).threw
            /\ attempts' = Attempt("intent", generateText(reply).threw)
            /\ IF e.threw THEN ExecThrew(e.message)
               ELSE LET post == QueryIntent_post(shared, e.value) IN
                    Continue(post.shared, post.action)
    /\ UNCHANGED <<storeVars, searchErrors, queryEmbedding>>

QueryExpansionNode ==
    /\ pc = "expansion"
    /\ \E reply \in ExpansionReplies(OrEmpty(shared.query)) :
       LET e == QueryExpansion_exec(OrEmpty(shared.query), reply) IN
       /\ attempts' = Attempt("expansion", generateText(reply).threw)
       /\ IF e.threw THEN ExecThrew(e.message)
          ELSE Continue([shared EXCEPT !.expandedQueries = Some(e.value)], "default")
    /\ generateCalls' = generateCalls \cup {"expansion"}
    /\ UNCHANGED <<storeVars, searchErrors, queryEmbedding, intentFailed>>

\* VectorSearchNode.exec, one iteration of `for (const query of allQueries)`
VectorSearchQuery ==
    /\ pc = "search"
    /\ searchIdx <= Len(AllQueries(shared))
    /\ \E reply \in QueryEmbeddingReplies :
       LET query == AllQueries(shared)[searchIdx]
           r == Adapter_searchDocuments(documents, embeddings, query, 5, reply)
       IN /\ allResults' = allResults \o r.results
          /\ searchErrors' = IF r.caught THEN searchErrors \cup {searchIdx} ELSE searchErrors
          /\ queryEmbedding' =
                IF searchIdx = 1 /\ ~getTextEmbedding(query, reply).threw
                THEN Some(reply.payload) ELSE queryEmbedding
    /\ searchIdx' = searchIdx + 1
    /\ UNCHANGED <<storeVars, pc, shared, currentRetry, runError, result, outcome,
                   executed, generateCalls, intentFailed, lastAction, attempts>>

\* VectorSearchNode.exec after the loop (unique results, slice(0, 5)) and post
VectorSearchNode ==
    /\ pc = "search"
    /\ searchIdx > Len(AllQueries(shared))
    /\ LET execRes == Slice(UniqueResults(allResults, 1), 5)
           post == VectorSearch_post(shared, execRes)
       IN Continue(post.shared, post.action)
    /\ UNCHANGED <<storeVars, generateCalls, searchErrors, queryEmbedding, intentFailed,
                   attempts>>

ContextBuildingNode ==
    /\ pc = "context"
    /\ Continue([shared EXCEPT
           !.context = Some(ContextText(OrNoElements(shared.searchResults), 1))], "default")
    /\ UNCHANGED <<storeVars, generateCalls, searchErrors, queryEmbedding, intentFailed,
                   attempts>>

\* ResponseGenerationNode: exec, and post with its own provider call
ResponseGenerationNode ==
    /\ pc = "response"
    /\ \E reply \in GenerationReplies, postReply \in GenerationReplies :
       LET context == OrEmpty(shared.context)
           e == ResponseGeneration_exec(context, reply)
           hasResults == OrNoElements(shared.queryResults) # <<>>
       IN IF e.threw
          THEN /\ ExecThrew(e.message)
               /\ generateCalls' = IF context = "" THEN generateCalls
                                   ELSE generateCalls \cup {"response"}
               /\ attempts' = IF context = "" THEN attempts ELSE Attempt("response", TRUE)
          ELSE /\ Continue([shared EXCEPT !.response =
                      IF hasResults
                      THEN Some(Adapter_generateResponseWithSources(
                                   OrEmpty(shared.query), Get(shared.queryResults), postReply))
                      ELSE Some(e.value)], "default")
               /\ generateCalls' = generateCalls \cup {"response"}
                      \cup (IF hasResults THEN {"sources"} ELSE {})
               /\ attempts' = Attempt("response", FALSE)
    /\ UNCHANGED <<storeVars, searchErrors, queryEmbedding, intentFailed>>

\* LLMFallbackNode whose post answers 'error' when the adapter fell back to its
\* fixed text
LLMFallbackNode_ErrorOnFailure ==
    /\ pc = "fallback"
    /\ LET e == Adapter_generateLLMFallback(OrEmpty(shared.query)) IN
       /\ Continue([shared EXCEPT !.response = Some(e.text)],
                   IF e.provider THEN "default" ELSE "error")
       /\ generateCalls' = IF e.provider THEN generateCalls \cup {"fallback"}
                           ELSE generateCalls
       /\ attempts' = Attempt("fallback", ~e.provider)
    /\ UNCHANGED <<storeVars, searchErrors, queryEmbedding, intentFailed>>

\* LLMFallbackNode
LLMFallbackNode ==
    /\ pc = "fallback"
    /\ LET e == Adapter_generateLLMFallback(OrEmpty(shared.query)) IN
       /\ Continue([shared EXCEPT !.response = Some(e.text)], "default")
       /\ generateCalls' = IF e.provider THEN generateCalls \cup {"fallback"}
                           ELSE generateCalls
       /\ attempts' = Attempt("fallback", ~e.provider)
    /\ UNCHANGED <<storeVars, searchErrors, queryEmbedding, intentFailed>>

\* MetadataEnhancementNode, or ErrorHandlingNode as a node of the graph
TerminalNode ==
    /\ pc \in {"metadata", "error"}
    /\ IF pc = "metadata"
       THEN Continue([shared EXCEPT !.metadata = Some(MetadataEnhancement_exec(shared))],
                     "default")
       ELSE Continue(ErrorHandling_run(shared), "default")
    /\ UNCHANGED <<storeVars, generateCalls, searchErrors, queryEmbedding, intentFailed,
                   attempts>>

\* query(): ragFlow.run returned
QueryReturn ==
    /\ pc = "flow_end"
    /\ result' = Some([response |-> IF OrEmpty(shared.response) = ""
                                    THEN "No response generated" ELSE Get(shared.response),
                       metadata |-> shared.metadata])
    /\ outcome' = "returned"
    /\ pc' = "done"
    /\ UNCHANGED <<storeVars, shared, currentRetry, searchIdx, allResults, runError, histVars>>

\* query()'s catch block, rethrowing instead of answering
QueryCatch_Rethrows ==
    /\ pc = "catch"
    /\ outcome' = "thrown"
    /\ pc' = "done"
    /\ UNCHANGED <<storeVars, shared, currentRetry, searchIdx, allResults, runError, result,
                   histVars>>

\* query()'s catch block: a new ErrorHandlingNode runs on the shared object
QueryCatch ==
    /\ pc = "catch"
    /\ LET sh == ErrorHandling_run([shared EXCEPT !.error = runError]) IN
       /\ shared' = sh
       /\ result' = Some([response |-> IF OrEmpty(sh.response) = ""
                                       THEN "System error occurred" ELSE Get(sh.response),
                          metadata |-> Some([error |-> TRUE, message |-> Get(runError)])])
    /\ executed' = Append(executed, "error")
    /\ outcome' = "returned"
    /\ pc' = "done"
    /\ UNCHANGED <<storeVars, currentRetry, searchIdx, allResults, runError, generateCalls,
                   searchErrors, queryEmbedding, intentFailed, lastAction, attempts>>

QueryInit ==
    /\ \E index \in SampleIndexes :
        /\ documents = index.documents
        /\ embeddings = index.embeddings
    /\ tree = [p \in Paths |-> None]
    /\ phase = "ready"
    /\ NoPassYet
    /\ NoRunYet

QueryNext ==
    \/ StartQuery
    \/ QueryIntentNode
    \/ QueryExpansionNode
    \/ VectorSearchQuery
    \/ VectorSearchNode
    \/ ContextBuildingNode
    \/ ResponseGenerationNode
    \/ LLMFallbackNode
    \/ TerminalNode
    \/ QueryReturn
    \/ QueryCatch

\* the workflow runs against a fixed index
QuerySpec == QueryInit /\ [][QueryNext]_vars

\* the run context of the call that runs now
Context ==
    [pc |-> pc, shared |-> shared, currentRetry |-> currentRetry, searchIdx |-> searchIdx,
     allResults |-> allResults, runError |-> runError, result |-> result,
     outcome |-> outcome, executed |-> executed, generateCalls |-> generateCalls,
     searchErrors |-> searchErrors, queryEmbedding |-> queryEmbedding,
     intentFailed |-> intentFailed, lastAction |-> lastAction, attempts |-> attempts]

\* the continuation of the other call runs; the node objects with their retry
\* counter would be one pair for both calls if the flow did not clone them
SwitchRun_SharedNodes ==
    /\ IsSome(other)
    /\ LET o == Get(other) IN
       /\ pc' = o.pc
       /\ shared' = o.shared
       /\ currentRetry' = currentRetry
       /\ searchIdx' = o.searchIdx
       /\ allResults' = o.allResults
       /\ runError' = o.runError
       /\ result' = o.result
       /\ outcome' = o.outcome
       /\ executed' = o.executed
       /\ generateCalls' = o.generateCalls
       /\ searchErrors' = o.searchErrors
       /\ queryEmbedding' = o.queryEmbedding
       /\ intentFailed' = o.intentFailed
       /\ lastAction' = o.lastAction
       /\ attempts' = o.attempts
    /\ other' = Some(Context)
    /\ focus' = 3 - focus
    /\ UNCHANGED <<indexVars, ingestVars, searchVars, unitVars>>

\* the event loop resumes the other call at one of its awaits: its shared object
\* (a local of query()), its clone of the node it is at, and the locals of that
\* node's exec become the current ones
SwitchRun ==
    /\ IsSome(other)
    /\ LET o == Get(other) IN
       /\ pc' = o.pc
       /\ shared' = o.shared
       /\ currentRetry' = o.currentRetry
       /\ searchIdx' = o.searchIdx
       /\ allResults' = o.allResults
       /\ runError' = o.runError
       /\ result' = o.result
       /\ outcome' = o.outcome
       /\ executed' = o.executed
       /\ generateCalls' = o.generateCalls
       /\ searchErrors' = o.searchErrors
       /\ queryEmbedding' = o.queryEmbedding
       /\ intentFailed' = o.intentFailed
       /\ lastAction' = o.lastAction
       /\ attempts' = o.attempts
    /\ other' = Some(Context)
    /\ focus' = 3 - focus
    /\ UNCHANGED <<indexVars, ingestVars, searchVars, unitVars>>

\* two callers over the index built from one file
ConcurrentInit ==
    /\ LET docs == ChunksOfFiles(<<[path |-> "a.md", content |-> "L1"]>>) IN
        /\ documents = docs
        /\ embeddings = EmbeddingsOf(docs)
    /\ tree = [p \in Paths |-> None]
    /\ phase = "ready"
    /\ NoPassYet
    /\ pc = FreshContext.pc
    /\ shared = FreshContext.shared
    /\ currentRetry = FreshContext.currentRetry
    /\ searchIdx = FreshContext.searchIdx
    /\ allResults = FreshContext.allResults
    /\ runError = FreshContext.runError
    /\ result = FreshContext.result
    /\ outcome = FreshContext.outcome
    /\ executed = FreshContext.executed
    /\ generateCalls = FreshContext.generateCalls
    /\ searchErrors = FreshContext.searchErrors
    /\ queryEmbedding = FreshContext.queryEmbedding
    /\ intentFailed = FreshContext.intentFailed
    /\ lastAction = FreshContext.lastAction
    /\ attempts = FreshContext.attempts
    /\ other = Some(FreshContext)
    /\ focus = 1
    /\ asked = NoSearch
    /\ found = None
    /\ args = None
    /\ ret = None

ConcurrentNext ==
    \/ QueryNext
    \/ SwitchRun

\* two query() calls whose stages interleave at their awaits
ConcurrentSpec == ConcurrentInit /\ [][ConcurrentNext]_vars

\* the run context of call i
RunContext(i) == IF focus = i THEN Context ELSE Get(other)

-----------------------------------------------------------------------------
(* CustomVectorStore.vectorSearch as a function of the index, the vector of  *)
(* the query and topK                                                        *)

MaxChunks == 3       \* chunks in the index that is searched

\* what the embeddings Map may hold for a chunk: no vector, or one of these (the
\* provider does not promise a vector of non-zero norm)
SearchVectors == {<<1, 0>>, <<1, 1>>, <<0, 1>>, <<0, 0>>}

SearchQueryVectors == {<<1, 0>>, <<0, 1>>, <<0, 0>>}

TopKs == {1, 2, 5}

\* the chunks of one-chunk files, in insertion order
SearchChunks ==
    processMarkdownFile("a.md", "S1") \o processMarkdownFile("b.md", "S2")
    \o processMarkdownFile("c.md", "S1")
    \o processMarkdownFile("d.md", "S2")

SearchInit ==
    /\ \E n \in 0..MaxChunks :
        /\ documents = Slice(SearchChunks, n)
        /\ embeddings \in [{d.id : d \in Range(Slice(SearchChunks, n))} ->
                              {None} \cup {Some(v) : v \in SearchVectors}]
    /\ tree = [p \in Paths |-> None]
    /\ phase = "ready"
    /\ NoPassYet
    /\ NoRunYet

\* vectorSearch(queryText, topK) when the provider returns queryVector for the text
Search ==
    /\ \E queryVector \in SearchQueryVectors, topK \in TopKs :
        /\ asked' = [queryVector |-> queryVector, topK |-> topK]
        /\ found' = Some(vectorSearch(documents, embeddings, "how", topK,
                                      ProviderReply(queryVector)))
    /\ UNCHANGED <<indexVars, ingestVars, callVars, runVars, histVars, unitVars>>

SearchNext == Search

SearchSpec == SearchInit /\ [][SearchNext]_vars

\* the position of a chunk in the documents Map
Position(doc) == CHOOSE i \in 1..Len(documents) : documents[i] = doc

\* s >= t for two similarities: both are numbers and s is not less
SimAtLeast(s, t) == ~IsNaN(s) /\ ~IsNaN(t) /\ ~SimLess(s, t)

-----------------------------------------------------------------------------
(* The chunker on its own: processMarkdownFile over one file *)

MaxDocLines == 3     \* lines of the processed content of the file

\* the lines a document of the model is made of: an empty line, paragraphs around
\* the size threshold, header lines (two with the same text, two whose texts differ
\* in case, blanks and punctuation only) and lines that only look like headers
ModelLines ==
    {Line(s) : s \in {"", "P991", "P992", "P1000", "P1001",
                      "# Setup", "## Setup", "## Set up", "# set-up!",
                      "#Setup", "####### Setup"}}

ModelDocuments == UNION {[1..n -> ModelLines] : n \in 1..MaxDocLines}

\* processMarkdownFile("a.md") when the processed content of the file is `content`
ProcessMarkdownFile ==
    /\ args = None
    /\ \E content \in ModelDocuments :
        /\ args' = Some([filePath |-> "a.md", content |-> content])
        /\ ret' = Some(createChunks(content, extractSections(content),
                                    BaseMetadata("a.md", "sha256")))
    /\ UNCHANGED <<indexVars, ingestVars, callVars, searchVars, runVars, histVars>>

ChunkInit ==
    /\ documents = <<>>
    /\ embeddings = <<>>
    /\ tree = [p \in Paths |-> None]
    /\ phase = "stopped"
    /\ NoPassYet
    /\ NoRunYet

ChunkNext == ProcessMarkdownFile

ChunkSpec == ChunkInit /\ [][ChunkNext]_vars

\* the header lines of a document, in order, and the heading text of each
HeaderLines(content) == SelectSeq(content, LAMBDA line : IsSome(headerMatch(line)))

HeadingText(line) == LineString(Get(headerMatch(line)).heading)

\* C21: a document whose normalized content has at most maxChunkSize characters
\* gives exactly one chunk, of kind full_document, whose text is the whole content.
C21_SmallDocumentIsOneChunk ==
    IsSome(ret) =>
        LET content == Get(args).content
            chunks == Get(ret)
        IN  TextLength(content) <= maxChunkSize =>
                /\ Len(chunks) = 1
                /\ chunks[1].metadata.chunk_type = "full_document"
                /\ chunks[1].text = Join(content)

\* a document of exactly maxChunkSize characters was chunked
C21_Witness ==
    /\ IsSome(ret)
    /\ TextLength(Get(args).content) = maxChunkSize
    /\ Len(Get(ret)) = 1
    /\ Get(ret)[1].text = "P1000"

\* C22: a document longer than maxChunkSize with N headings, each section having at
\* most maxChunkSize characters, gives exactly N chunks, of kind section or
\* subsection, the i-th chunk being that of the i-th heading.
C22_OneChunkPerHeading ==
    IsSome(ret) =>
        LET content == Get(args).content
            chunks == Get(ret)
            headers == HeaderLines(content)
        IN  (/\ TextLength(content) > maxChunkSize
             /\ \A s \in Range(extractSections(content)) :
                    TextLength(SectionContent(s)) <= maxChunkSize) =>
                /\ Len(chunks) = Len(headers)
                /\ \A i \in 1..Len(chunks) :
                    /\ chunks[i].metadata.chunk_type \in {"section", "subsection"}
                    /\ chunks[i].metadata.section = Some(HeadingText(headers[i]))

\* a document over the threshold with two headings gave the two section chunks,
\* one of them of exactly maxChunkSize characters
C22_Witness ==
    /\ IsSome(ret)
    /\ Get(args).content = <<Line("# Setup"), Line("P991"), Line("## Set up")>>
    /\ Len(Get(ret)) = 2
    /\ Get(ret)[1].metadata.chunk_type = "section"
    /\ Get(ret)[2].metadata.chunk_type = "subsection"

\* C23: a document that is empty after normalization gives no chunk, and no chunk
\* the chunker emits has an empty text.
C23_EmptyDocumentGivesNoChunk ==
    IsSome(ret) =>
        LET content == Get(args).content
            chunks == Get(ret)
        IN  /\ Join(content) = "" => chunks = <<>>
            /\ \A i \in 1..Len(chunks) : chunks[i].text # ""

\* C24: the chunks of one document have pairwise distinct ids, also when two of
\* its headings have the same text.
C24_ChunkIdsAreDistinct ==
    IsSome(ret) =>
        LET chunks == Get(ret) IN
        \A i, j \in 1..Len(chunks) : i # j => chunks[i].id # chunks[j].id

\* C35: every chunk an ingestion pass stored has as its embedding the vector the
\* adapter computed from the chunk's own text, also when texts of the same request
\* are empty or fail to embed: no vector is assigned to another chunk.
C35_EmbeddingBelongsToItsChunk ==
    \A d \in Range(documents) :
        HasEmbedding(embeddings, d.id) =>
            embeddings[d.id] = Some(ProviderVector(d.text))

\* C36: after any sequence of ingestion passes the index holds no stale chunk: every
\* chunk belongs to a file of the source tree the last pass scanned, and its id is
\* one the chunker produces for the current content of that file, also when the
\* fingerprint table was lost or could not be written in an earlier pass.
C36_NoStaleChunks ==
    (passKind # "none" /\ phase = "ready") =>
        \A d \in Range(documents) :
            LET p == d.metadata.file_path IN
            /\ IsSome(Get(passTree)[p])
            /\ \E c \in Range(processMarkdownFile(p, Get(Get(passTree)[p]))) : c.id = d.id

-----------------------------------------------------------------------------
(* The sliding window: a file made of one heading and one paragraph of n words *)

\* the processed content "# Setup\n<n words>"
OneSectionDocument(n) == <<Line("# Setup"), <<WordsParagraph(n)>>>>

\* processMarkdownFile("a.md") over such a file; .windows are the words
\* slidingWindowChunk put into each chunk of the section, if it was called
ChunkLongSection ==
    /\ args = None
    /\ \E n \in 1..MaxWords :
        LET content == OneSectionDocument(n)
            sections == extractSections(content)
            sectionContent == SectionContent(sections[1])
            windowed == TextLength(content) > maxChunkSize
                        /\ TextLength(sectionContent) > maxChunkSize
        IN /\ args' = Some([filePath |-> "a.md", content |-> content,
                            words |-> SplitWords(sectionContent)])
           /\ ret' = Some([chunks |-> createChunks(content, sections,
                                                   BaseMetadata("a.md", "sha256")),
                           windows |-> IF windowed
                                       THEN slidingWindowChunk_from(
                                               SplitWords(sectionContent), 0)
                                       ELSE <<>>])
    /\ UNCHANGED <<indexVars, ingestVars, callVars, searchVars, runVars, histVars>>

WindowInit ==
    /\ documents = <<>>
    /\ embeddings = <<>>
    /\ tree = [p \in Paths |-> None]
    /\ phase = "stopped"
    /\ NoPassYet
    /\ NoRunYet

WindowNext == ChunkLongSection

WindowSpec == WindowInit /\ [][WindowNext]_vars

\* the section was split by the sliding window
WasWindowed == IsSome(ret) /\ Get(ret).windows # <<>>

\* C32: a section longer than T that the sliding window splits over its W words
\* gives ceil((W - overlapWords) / (windowWords - overlapWords)) chunks, with
\* windowWords = 166 and overlapWords = 33.
C32_WindowCount ==
    WasWindowed =>
        /\ wordsPerChunk = 166 /\ overlapWords = 33
        /\ Len(Get(ret).chunks) =
              (Get(args).words - overlapWords + (wordsPerChunk - overlapWords) - 1)
                 \div (wordsPerChunk - overlapWords)

\* C33: consecutive chunks of a sliding-window split share exactly overlapWords
\* words: the last 33 words of chunk i are the first 33 words of chunk i+1, for
\* every i including the last pair; the chunks carry chunk_index 0, 1, 2, ... in
\* window order.
C33_ConsecutiveWindowsOverlap ==
    WasWindowed =>
        LET chunks == Get(ret).chunks
            windows == Get(ret).windows
        IN /\ Len(chunks) = Len(windows)
           /\ \A k \in 1..Len(chunks) :
                 /\ chunks[k].metadata.chunk_index = Some(k - 1)
                 /\ chunks[k].text = WindowText(Join(SectionContent(
                                         extractSections(Get(args).content)[1])), windows[k])
           /\ \A k \in 1..Len(windows) - 1 :
                 /\ windows[k].to - windows[k].from >= overlapWords
                 /\ windows[k + 1].to - windows[k + 1].from >= overlapWords
                 /\ windows[k + 1].from = windows[k].to - overlapWords

-----------------------------------------------------------------------------
(* A full build over more documents than one batch holds *)

MaxBuildDocuments == 12    \* chunks scanCurrentDocuments found

\* the chunks of one file a.md made of n short sections
SectionDocuments(n) ==
    [i \in 1..n |->
        [id |-> "a.md#section-" \o ToString(i), text |-> SectionText(i),
         metadata |-> [BaseMetadata("a.md", getFileContentHash("sections"))
                          EXCEPT !.section = Some(SectionText(i)),
                                 !.chunk_type = "section"]]]

\* the batch (counted from 1) that document i of validDocuments falls in
BatchOf(i) == (i - 1) \div batchSize + 1

MaxBuildFaults == 2        \* single embedding calls that fail during the build

\* the embedding calls that fail: a few single calls, or every call of one batch
\* (the provider is unreachable while the batch is processed)
FailurePatterns(n) ==
    {f \in SUBSET {SectionText(i) : i \in 1..n} : Cardinality(f) <= MaxBuildFaults}
    \cup {{SectionText(i) : i \in {j \in 1..n : BatchOf(j) = b}} : b \in 1..BatchOf(n)}

\* buildIndexFromScratch(currentDocuments, currentFileHashes) with the embedding
\* calls for the texts of `failing` throwing and the writes ending as `write` says
BuildIndexFromScratch ==
    /\ args = None
    /\ \E n \in 1..MaxBuildDocuments, write \in WriteOutcomes :
       \E failing \in FailurePatterns(n) :
         LET currentDocuments == SectionDocuments(n)
             currentFileHashes == [p \in {"a.md"} |-> getFileContentHash("sections")]
             built == BuildBatches(currentDocuments, failing)
             saved == SaveAll(disk, built, currentFileHashes, write)
         IN /\ args' = Some([currentDocuments |-> currentDocuments])
            /\ ret' = Some([calls |-> built.calls, threw |-> saved.threw])
            /\ documents' = built.documents
            /\ embeddings' = built.embeddings
            /\ disk' = saved.disk
            /\ written' = saved.written
            /\ writeFault' = write
            /\ embedFaults' = failing
    /\ UNCHANGED <<tree, phase, passes, edits, faults, pending, passKind, toInsert,
                   toDelete, loaded, scanFaults, passTree, onlyChanged, onlyRemoved,
                   diskBefore, snapshotTree, tableTree, sinceTree>>
    /\ UNCHANGED <<callVars, searchVars, runVars, histVars>>

BuildInit ==
    /\ documents = <<>>
    /\ embeddings = <<>>
    /\ tree = [p \in Paths |-> None]
    /\ phase = "stopped"
    /\ NoPassYet
    /\ NoRunYet

BuildNext == BuildIndexFromScratch

BuildSpec == BuildInit /\ [][BuildNext]_vars

\* an embedding call for a document of batch b failed
BatchFailed(docs, b) ==
    \E i \in 1..Len(docs) : BatchOf(i) = b /\ docs[i].text \in embedFaults

IsStored(doc) == \E d \in Range(documents) : d.id = doc.id

\* C30: in a full build a failure in one embedding batch makes only that batch's
\* documents be skipped: every other batch is processed and its documents are stored
\* with their embeddings, the index is persisted, and no batch is handed to the
\* provider twice.
C30_FailedBatchIsSkipped ==
    (IsSome(ret) /\ writeFault = "ok") =>
        LET docs == Get(args).currentDocuments IN
        /\ \A i \in 1..Len(docs) :
              IF BatchFailed(docs, BatchOf(i))
              THEN ~IsStored(docs[i]) /\ ~HasEmbedding(embeddings, docs[i].id)
              ELSE /\ IsStored(docs[i])
                   /\ EmbeddingOf(embeddings, docs[i].id)
                         = Some(ProviderVector(docs[i].text))
        /\ disk.documents = Some(documents)
        /\ disk.embeddings = Some(StoredEmbeddings(embeddings))
        /\ Len(Get(ret).calls) = BatchOf(Len(docs))
        /\ \A b \in 1..Len(Get(ret).calls) :
              Get(ret).calls[b] =
                 [j \in 1..Len(Get(ret).calls[b]) |-> docs[(b - 1) * batchSize + j].text]

-----------------------------------------------------------------------------
(* generateFrontendUrl: a path is the sequence of its segments, separators and
   extension ("api/x.md" is <<"api", "/", "x", ".md">>) *)

MaxSegments == 3     \* segments of the path of a file below the data directory

RECURSIVE PathText(_)
PathText(path) == IF path = <<>> THEN "" ELSE path[1] \o PathText(Tail(path))

\* filePath.replace(/^.*\/data\//, ''): the match is greedy, up to the last "/data/"
StripThroughData(path) ==
    LET ends == {i \in 3..Len(path) :
                    path[i - 2] = "/" /\ path[i - 1] = "data" /\ path[i] = "/"}
    IN IF ends = {} THEN path
       ELSE SubSeq(path, (CHOOSE i \in ends : \A j \in ends : j <= i) + 1, Len(path))

\* .replace(/^prefix/, '')
StripPrefix(path, prefix) ==
    IF Len(path) >= Len(prefix) /\ SubSeq(path, 1, Len(prefix)) = prefix
    THEN SubSeq(path, Len(prefix) + 1, Len(path)) ELSE path

\* .replace(/suffix$/, '')
StripSuffix(path, suffix) ==
    IF Len(path) >= Len(suffix)
       /\ SubSeq(path, Len(path) - Len(suffix) + 1, Len(path)) = suffix
    THEN SubSeq(path, 1, Len(path) - Len(suffix)) ELSE path

\* .replace(/\.mdx?$/, '')
StripMarkdownExtension(path) ==
    IF path # <<>> /\ path[Len(path)] \in {".md", ".mdx"}
    THEN SubSeq(path, 1, Len(path) - 1) ELSE path

\* generateFrontendUrl without .replace(/^data\//, '')
generateFrontendUrl_KeepsDataPrefix(filePath) ==
    LET cleanPath == StripMarkdownExtension(
                        StripPrefix(
                           StripPrefix(StripThroughData(filePath),
                                       <<"apps", "/", "docs", "/">>),
                           <<"docs", "/">>))
        finalPath == StripSuffix(cleanPath, <<"/", "index">>)
    IN "/docs/" \o PathText(finalPath)

generateFrontendUrl(filePath) ==
    LET cleanPath == StripMarkdownExtension(
                        StripPrefix(
                           StripPrefix(
                              StripPrefix(StripThroughData(filePath), <<"data", "/">>),
                              <<"apps", "/", "docs", "/">>),
                           <<"docs", "/">>))
        finalPath == StripSuffix(cleanPath, <<"/", "index">>)
    IN "/docs/" \o PathText(finalPath)

\* the names of directories and files, and the paths <rel> below the data directory
SegmentNames == {"data", "docs", "apps", "api", "index", "troubleshooting"}

RECURSIVE JoinSegments(_)
JoinSegments(segments) ==
    IF Len(segments) = 1 THEN segments
    ELSE <<segments[1], "/">> \o JoinSegments(Tail(segments))

RelativeFiles ==
    {[segments |-> segs, extension |-> ext] :
        segs \in UNION {[1..n -> SegmentNames] : n \in 1..MaxSegments},
        ext \in {".md", ".mdx"}}

FilePathOf(file) == JoinSegments(file.segments) \o <<file.extension>>

\* what stands before "/data/" in an absolute path
DataRoots ==
    {<<>>, <<"/", "Users", "/", "DocsRAG", "/", "apps", "/", "api">>,
     <<"/", "srv", "/", "data", "/", "docs">>}

\* the test script: the URL of one file under the three ways of writing its path
TestUrlGeneration ==
    /\ args = None
    /\ \E file \in RelativeFiles, root \in DataRoots :
        LET variations ==
                [absolute |-> root \o <<"/", "data", "/">> \o FilePathOf(file),
                 relative |-> <<"data", "/">> \o FilePathOf(file),
                 bare |-> FilePathOf(file)]
        IN /\ args' = Some([file |-> file, variations |-> variations])
           /\ ret' = Some([v \in DOMAIN variations |-> generateFrontendUrl(variations[v])])
    /\ UNCHANGED <<indexVars, ingestVars, callVars, searchVars, runVars, histVars>>

UrlInit ==
    /\ documents = <<>>
    /\ embeddings = <<>>
    /\ tree = [p \in Paths |-> None]
    /\ phase = "stopped"
    /\ NoPassYet
    /\ NoRunYet

UrlNext == TestUrlGeneration

UrlSpec == UrlInit /\ [][UrlNext]_vars

\* '/docs/<rel>' with the extension removed and a trailing '/index' collapsed
DocsUrl(file) ==
    "/docs/" \o PathText(StripSuffix(JoinSegments(file.segments), <<"/", "index">>))

\* <rel> itself begins with a source-root prefix or goes through a data directory
UnderSourceRoot(segments) ==
    \/ \E i \in 1..Len(segments) - 1 : segments[i] = "data"
    \/ Len(segments) >= 2 /\ segments[1] = "docs"
    \/ Len(segments) >= 3 /\ segments[1] = "apps" /\ segments[2] = "docs"

ServeTrees == {t \in Trees : t["a.md"] = Some("L1") /\ t["b.md"] = Some("S1")}

ServeInit ==
    /\ documents = <<>>
    /\ embeddings = <<>>
    /\ tree \in ServeTrees
    /\ phase = "stopped"
    /\ NoPassYet
    /\ NoRunYet

ServeNext ==
    \/ EditTree
    \/ InitializeFromScratch
    \/ InitializeIncremental
    \/ InitializeIncrementalBegin
    \/ InitializeIncrementalEnd
    \/ StartQuery

\* processes are started over the data directory one after the other, each
\* running initialize() step by step, and the last one takes a query
ServeSpec == ServeInit /\ [][ServeNext]_vars

\* The in-memory index a query can run against is never in the middle of a pass
ServedIndexIsComplete == pc # "idle" => (phase = "ready" /\ pending = None)

\* C18: no partially updated index is exposed: whenever a query() call has been
\* accepted, initialize() has resolved (the index is not between the deletions
\* and the insertions of an update), and the pass has persisted what it changed:
\* it wrote documents.json, embeddings.json and file_hashes.json, or it was an
\* update that found nothing to change.
C18_NoQueryBeforePassPersisted ==
    pc # "idle" =>
        /\ phase = "ready"
        /\ pending = None
        /\ \/ written = {"documents", "embeddings", "hashes"}
           \/ passKind = "update" /\ toInsert = <<>> /\ toDelete = <<>>

\* each awaited call returns or fails, so a run that can take a step takes one
FairQuerySpec == QuerySpec /\ WF_vars(QueryNext)

-----------------------------------------------------------------------------
(* Properties of the query workflow *)

Ran(node) == node \in Range(executed)

RunEnded == pc = "done"

NoDuplicateIds(results) ==
    \A i, j \in 1..Len(results) :
        results[i].document.id = results[j].document.id => i = j

\* C1: query() never throws to its caller: every run ends by returning a response
\* object, and when the run failed (an exception left the flow) the returned
\* metadata is the error marker {error: true, message}.
C1_QueryNeverThrows ==
    /\ outcome # "thrown"
    /\ RunEnded => outcome = "returned" /\ IsSome(result)
    /\ (RunEnded /\ IsSome(runError)) =>
          Get(result).metadata = Some([error |-> TRUE, message |-> Get(runError)])

\* a run whose response generation failed on every attempt has returned
C1_Witness ==
    /\ RunEnded
    /\ outcome = "returned"
    /\ runError = Some("No text generated from Gemini API")
    /\ shared.query = Some("how")

C3_FailedSearchGoesToErrorHandling ==
    (RunEnded /\ 1 \in searchErrors) =>
        /\ Ran("error")
        /\ ~Ran("context")
        /\ ~Ran("fallback")

\* the query vector has no positive similarity with any stored vector
NoRelevantChunk ==
    /\ IsSome(queryEmbedding)
    /\ \A i \in 1..Len(documents) :
          HasEmbedding(embeddings, documents[i].id) =>
             LET sim == cosineSimilarity(Get(queryEmbedding),
                                         Get(embeddings[documents[i].id])).value
             IN ~IsNaN(sim) /\ sim.num <= 0

MetadataMarksFallback(metadata) ==
    /\ IsSome(metadata)
    /\ "fallback" \in DOMAIN Get(metadata)
    /\ Get(metadata).fallback = TRUE

\* C4: against a non-empty index with no chunk relevant to the query, the run takes
\* the no_results path (LLM Fallback, neither Context Building nor Response
\* Generation) and the returned metadata marks the fallback path as used.
C4_ZeroHitTakesFallback ==
    (/\ RunEnded
     /\ \E i \in 1..Len(documents) : HasEmbedding(embeddings, documents[i].id)
     /\ searchErrors = {}
     /\ NoRelevantChunk) =>
        /\ Ran("fallback")
        /\ ~Ran("context")
        /\ ~Ran("response")
        /\ MetadataMarksFallback(Get(result).metadata)

\* C5: Vector Search routes on the number n of results it stores: no_results for 0,
\* high_confidence for n >= 3, low_confidence for 1 and 2; the stored list has no
\* two entries with the same chunk id and at most 5 entries.
C5_SearchRoutesOnResultCount ==
    /\ [](IsSome(shared.searchResults) =>
            /\ NoDuplicateIds(Get(shared.searchResults))
            /\ Len(Get(shared.searchResults)) <= 5)
    /\ [][(pc = "search" /\ pc' # "search") =>
            LET n == Len(Get(shared'.searchResults)) IN
            /\ lastAction' = (IF n = 0 THEN "no_results"
                              ELSE IF n >= 3 THEN "high_confidence" ELSE "low_confidence")
            /\ pc' = (IF n = 0 THEN "fallback" ELSE "context")]_vars

\* two results were kept of the four that the original and an expanded query returned
C5_Witness ==
    /\ pc = "context"
    /\ lastAction = "low_confidence"
    /\ Len(Get(shared.searchResults)) = 2
    /\ Len(Get(shared.expandedQueries)) >= 1
    /\ searchErrors = {}

\* C6: LLM Fallback executes only after a search with zero results, Context Building
\* and Response Generation only after a search with at least one result, and never
\* both paths in one run.
C6_PathsAreExclusive ==
    /\ Ran("fallback") => IsSome(shared.searchResults) /\ Get(shared.searchResults) = <<>>
    /\ Ran("context") => IsSome(shared.searchResults) /\ Len(Get(shared.searchResults)) >= 1
    /\ Ran("response") => Ran("context")
    /\ ~(Ran("fallback") /\ Ran("context"))

\* a run went through Context Building and Response Generation and ended
C6_Witness ==
    /\ RunEnded
    /\ Ran("response")
    /\ Len(Get(shared.searchResults)) >= 3

\* C7: the answer LLM Fallback stores was generated by the provider (generateText was
\* invoked for it) and is marked as not grounded in the documentation.
C7_FallbackAnswerFromProvider ==
    (Ran("fallback") /\ pc # "fallback") =>
        /\ "fallback" \in generateCalls
        /\ MarkedNotGrounded(Get(shared.response))

ResponseExhausted == attempts["response"].failed = maxRetries("response")

StagesBeforeResponse == <<"intent", "expansion", "search", "context", "response">>

CallingStages == {"intent", "expansion", "response", "fallback"}

\* the stage was left after a failed call that was neither followed by a successful
\* one nor repeated until the budget of the stage was used up
GaveUpEarly(node) ==
    /\ pc # node
    /\ attempts[node].failed > 0
    /\ attempts[node].calls = attempts[node].failed
    /\ attempts[node].failed < maxRetries(node)

\* C28: every stage re-attempts a failed adapter call until it succeeds or the
\* attempts of the stage are used up (Intent Classification 3, Query Expansion 2,
\* LLM Fallback 2, Response Generation 3); no stage degrades or fails before that.
C28_FailedCallIsRetriedUpToBudget == \A node \in CallingStages : ~GaveUpEarly(node)

\* the expansions the run context holds
Expansions == OrNoElements(shared.expandedQueries)

\* C29: Query Expansion never fails the run and is always followed by Vector Search:
\* a failed provider call leaves zero expansions, and in every run the context holds
\* between 0 and 3 expanded queries once the stage has run, none of them equal to
\* the text of the query.
C29_ExpansionDegradesToNone ==
    /\ [][pc = "expansion" =>
            /\ pc' = "search"
            /\ runError' = None
            /\ IsSome(shared'.expandedQueries)
            /\ attempts'["expansion"].failed > 0 => shared'.expandedQueries = Some(<<>>)]_vars
    /\ []((Ran("expansion") /\ pc # "expansion") =>
            /\ Ran("search")
            /\ IsSome(shared.expandedQueries)
            /\ Len(Expansions) \in 0..3
            /\ \A i \in 1..Len(Expansions) : Expansions[i] # OrEmpty(shared.query))

\* a run whose expansion call failed is at Vector Search with no expansion
C29_Witness ==
    /\ pc = "search"
    /\ attempts["expansion"] = [calls |-> 1, failed |-> 1]
    /\ shared.expandedQueries = Some(<<>>)
    /\ runError = None

\* C31: the cosine similarity of two vectors of equal length is
\* dot(a,b)/(||a||*||b||), and it is 0 when either vector has norm 0: no result
\* enters the ranking with a similarity that is not a number.
C31_ZeroNormSimilarityIsZero ==
    (IsSome(found) /\ ~Get(found).threw) =>
        \A r \in Range(Get(found).value) :
            LET a == asked.queryVector
                b == Get(embeddings[r.document.id])
            IN /\ ~IsNaN(r.similarity)
               /\ IF Dot(a, a) = 0 \/ Dot(b, b) = 0
                  THEN r.similarity.num = 0
                  ELSE r.similarity = [num |-> Dot(a, b), den2 |-> Dot(a, a) * Dot(b, b)]

\* a similarity as the spec counts it: 0 when a norm is 0
SimilarityOrZero(s) == IF IsNaN(s) THEN ZeroSimilarity ELSE s

\* C34: on the success paths the metadata of Metadata Enhancement reports the number
\* of search results of the run context as documentsFound, the number of expanded
\* queries as expansions, the classified intent and its confidence, and as
\* topRelevance the highest similarity among the search results (0 when there are
\* none).
C34_MetadataReportsTheRun ==
    (RunEnded /\ Ran("metadata")) =>
        LET metadata == Get(Get(result).metadata)
            results == Get(shared.searchResults)
            top == metadata.searchMetadata.topRelevance
        IN /\ metadata.searchMetadata.documentsFound = Len(results)
           /\ metadata.queryAnalysis.expansions = Len(Get(shared.expandedQueries))
           /\ metadata.queryAnalysis.intent = Get(shared.intent).type
           /\ metadata.queryAnalysis.confidence = Get(shared.intent).confidence
           /\ ~IsNaN(top)
           /\ results = <<>> => top.num = 0
           /\ \A i \in 1..Len(results) :
                 ~SimLess(top, SimilarityOrZero(results[i].similarity))
           /\ results # <<>> =>
                 \E i \in 1..Len(results) :
                    ~SimLess(SimilarityOrZero(results[i].similarity), top)

-----------------------------------------------------------------------------
(* The merged result list against the original query's own search *)

\* what searchDocuments gave for the original query of the run: the index is
\* fixed during a run and the vector the provider returned for the query is
\* queryEmbedding
OriginalHits ==
    IF IsSome(queryEmbedding)
    THEN Adapter_searchDocuments(documents, embeddings, OrEmpty(shared.query), 5,
                                 ProviderReply(Get(queryEmbedding))).results
    ELSE <<>>

\* exec's return value from the hits collected so far
MergedHits == Slice(UniqueResults(allResults, 1), 5)

-----------------------------------------------------------------------------
(* Response Generation always has a context *)

NoContextMessage == "No context available for response generation"

\* the stage that executed last (the one whose exception left the flow, if one did)
ThrowingStage == executed[Len(executed)]

\* C38: whenever Response Generation is to execute, the context of the run is
\* non-empty; no run fails with 'No context available for response generation';
\* a run that Response Generation made fail failed with the message of the
\* generation call.
C38_ResponseGenerationHasContext ==
    /\ pc = "response" => OrEmpty(shared.context) # ""
    /\ runError # Some(NoContextMessage)
    /\ (pc = "catch" /\ ThrowingStage = "response") =>
            /\ runError = Some(generateText(ProviderFailure).message)
            /\ "response" \in generateCalls

\* Response Generation ran with a context and used up its attempts on failed
\* generation calls
C38_Witness ==
    /\ pc = "catch"
    /\ ThrowingStage = "response"
    /\ OrEmpty(shared.context) # ""
    /\ runError = Some(generateText(ProviderFailure).message)

-----------------------------------------------------------------------------
(* Error Handling is not a stage of the graph *)

\* the metadata of the answer carries query()'s error marker
HasErrorMarker(answer) ==
    IsSome(answer.metadata) /\ "error" \in DOMAIN Get(answer.metadata)

-----------------------------------------------------------------------------
(* What the chunks keep of the content *)

\* the words k.. of the text `text` of `words` words are all in windows whose
\* texts are among `texts`, each window starting at or before the end of the last
RECURSIVE WindowsCoverFrom(_, _, _, _)
WindowsCoverFrom(texts, text, words, k) ==
    k >= words \/
    \E from \in 0..k, to \in (k + 1)..words :
        /\ WindowText(text, [from |-> from, to |-> to]) \in texts
        /\ WindowsCoverFrom(texts, text, words, to)

\* every word of the text `lines` is in the text of a chunk: as one chunk, or in
\* the windows the text was cut into
TextIsKept(texts, lines) ==
    \/ Join(lines) \in texts
    \/ WindowsCoverFrom(texts, Join(lines), SplitWords(lines), 0)

\* line i of the content has no word, or its words are in the text of a chunk:
\* the chunk of the whole document, or the chunks of a section made of the
\* heading of line a and of the lines after it up to line b
LineIsKept(texts, content, i) ==
    \/ content[i] = <<>>
    \/ Join(content) \in texts
    \/ \E a \in 1..i, b \in i..Len(content) :
          /\ IsSome(headerMatch(content[a]))
          /\ TextIsKept(texts,
                        SectionContent([heading |-> Get(headerMatch(content[a])).heading,
                                        content |-> TrimLines(SubSeq(content, a + 1, b))]))

\* C40: chunking loses no content: a document whose normalized content is not
\* empty gives at least one chunk, and every word of the content, text before
\* the first heading and documents over maxChunkSize without heading included,
\* is in the text of at least one chunk.
C40_NoContentLost ==
    IsSome(ret) =>
        LET content == Get(args).content
            chunks == Get(ret)
            texts == {chunks[k].text : k \in 1..Len(chunks)}
        IN  /\ Join(content) # "" => chunks # <<>>
            /\ \A i \in 1..Len(content) : LineIsKept(texts, content, i)

\* the same for the documents that begin with a heading
C40_NoContentLostAfterHeading ==
    IsSome(ret) =>
        LET content == Get(args).content
            chunks == Get(ret)
            texts == {chunks[k].text : k \in 1..Len(chunks)}
        IN  IsSome(headerMatch(content[1])) =>
                /\ chunks # <<>>
                /\ \A i \in 1..Len(content) : LineIsKept(texts, content, i)

====
